---- MODULE Spec2Model ----
(***************************************************************************)
(* Letterboxd-to-Trakt movie sync: the rate-limited gateway callTraktApi   *)
(* (src/utils/trakt.ts, carried in src/src/utils/__tests__/trakt.test.ts   *)
(* lines 520-722), the exported functions built on it, and the check and   *)
(* sync passes of the page (src/unnamed/part_003).                         *)
(*                                                                         *)
(* Time is the value of Date.now() in milliseconds.  A caller is one async *)
(* invocation chain; between two awaits its code runs without              *)
(* interleaving (the JavaScript event loop), which the guards Exclusive    *)
(* and PageQuiet express.                                                  *)
(***************************************************************************)
EXTENDS Integers, Sequences, FiniteSets, TLC

\* ------------------------------------------------------------------ bounds
MaxCalls == 3          \* gateway calls one caller issues in Spec
MaxIdealCalls == 21    \* gateway calls issued back to back in IdealSpec
MaxApiCalls == 3       \* gateway calls after which no exported function is started
MaxMovies == 2         \* records in the imported diary
MaxCheckPasses == 1    \* check passes started
MaxSyncPasses == 1     \* sync passes started
MaxResyncPasses == 2   \* sync passes started one after another
MaxRecheckPasses == 2  \* check passes started, the earlier ones stopped
EarlierRequests == 6   \* requests counted before the diary is imported
MaxRatingLen == 4      \* characters of a rating text
MaxConcCalls == 5      \* gateway calls each concurrent caller issues
StartTime == 5000      \* Date.now() at the first step (any value >= 3000)

\* ------------------------------------------------------- program constants
MIN_REQUEST_INTERVAL == 3000
BATCH_INTERVAL == 10000
BATCH_SIZE == 10
MAX_RETRIES == 3

\* ------------------------------------------------------------ value spaces
AllCallers == {1, 2}
Null == "null"
Tokens == {"test-token"}
\* config.access_token of a TraktAuthConfig: absent, empty or a token
ConfigTokens == {"undefined", ""} \cup Tokens
\* timer lateness: setTimeout fires no earlier than the requested delay
\* (IdealSpec draws it from Jitter, the other specifications use 0)
Jitter == {0, 1000}
\* time a transport request takes
Durations == {0, 1000}
\* time the caller lets pass between two gateway calls
Pauses == {1000}
\* response bodies: JSON arrays, here an empty and a one-element array
Bodies == {<< >>, <<"item">>}
OtherErrors == {"http500", "network"}

\* endpoint, payload and method of a gateway call
\* endpoint: the path and its parameters; data: the movies array of a
\* TraktSyncRequest (<< >>: null)
Requests ==
  { [endpoint |-> <<"/search/movie", "Movie", "2023">>, data |-> << >>,
     method |-> "GET"],
    [endpoint |-> <<"/sync/history">>, data |-> <<"item">>,
     method |-> "POST"] }
NoRequest == [endpoint |-> << >>, data |-> << >>, method |-> ""]

\* a value a promise settles with: a response body or an error object.
\* id identifies the transport answer it came from (0: made locally).
NoResult == [tag |-> "none", kind |-> "", body |-> << >>, id |-> 0]
Body(b, i) == [tag |-> "ok", kind |-> "", body |-> b, id |-> i]
Error(e, i) == [tag |-> "err", kind |-> e, body |-> << >>, id |-> i]
NotInitialized == Error("Trakt client not initialized", 0)

VARIABLES
  now,              \* Date.now()
  accessToken,      \* module variable accessToken
  lastRequestTime,  \* module variable lastRequestTime
  requestCount,     \* module variable requestCount
  frame,            \* per caller: the activation of callTraktApi
  calls,            \* per caller: gateway calls issued so far
  lastEnd,          \* history: completion time of the latest transport request (-1: none)
  sent,             \* history: transport requests begun by the gateway
  cooldowns,        \* history: batch cooldowns slept
  startedAt,        \* history: Date.now() at the first gateway call (-1: none)
  task,             \* per caller: the exported function it is running
  trakt_token,      \* localStorage item 'trakt_token' ("": none)
  movies,           \* moviesAtom
  isCheckingHistory,   \* isCheckingHistoryAtom
  isCancelled,      \* the ref isCancelled.current
  isProcessing,     \* state isProcessing
  isSyncCancelled,  \* state isSyncCancelled
  newMoviesSelection,       \* newMoviesSelectionAtom: the selected row indices
  existingMoviesSelection,  \* existingMoviesSelectionAtom
  check,            \* per loop: an activation of checkHistory
  sync,             \* the activation of handleSync
  passes,           \* history: check and sync passes started, cancels clicked
  direct,           \* history: requests sent to api.trakt.tv by the history route
  isAuthenticated,  \* state isAuthenticated
  home,             \* the file the Home component was built from
  ratingArg,        \* the argument of convertLetterboxdRatingToTrakt
  converted         \* what it returned (Pending: not called yet)

vars == <<now, accessToken, lastRequestTime, requestCount, frame, calls,
          lastEnd, sent, cooldowns, startedAt, task, trakt_token, movies,
          isCheckingHistory, isCancelled, isProcessing, isSyncCancelled,
          newMoviesSelection, existingMoviesSelection, check, sync, passes,
          direct, isAuthenticated, home, ratingArg, converted>>

\* the state above the gateway
apiVars == <<task>>

\* the call of the rating converter
convVars == <<ratingArg, converted>>

\* the state of the page
pageVars == <<trakt_token, movies, isCheckingHistory, isCancelled,
              isProcessing, isSyncCancelled, newMoviesSelection,
              existingMoviesSelection, check, sync, passes, direct,
              isAuthenticated, home>>

\* The activation record of one callTraktApi invocation chain.
\*  pc: idle | batch | spacing | cooldown | send | inflight | backoff | returned | thrown
IdleFrame ==
  [ pc |-> "idle", req |-> NoRequest, retryCount |-> 0, wake |-> 0,
    result |-> NoResult,
    attempts |-> 0,         \* history: transport attempts of this call
    backoffs |-> << >>,     \* history: backoff sleeps requested by this call
    sentReqs |-> {},        \* history: requests handed to the transport
    begin |-> -1,           \* history: start time of the latest attempt
    prevEnd |-> -1,         \* history: lastEnd when the latest attempt began
    readLast |-> -1,        \* history: lastRequestTime read by the spacing check
    readAt |-> -1,          \* history: Date.now() read by the spacing check
    ordinal |-> 0,          \* history: number of the latest attempt among all
    last |-> NoResult ]     \* history: the latest transport answer

\* a LetterboxdEntry; "" and << >> stand for an absent or empty field
NoDate == [day |-> "", time |-> ""]
NoEntry == [Name |-> "", Year |-> "", Rating |-> << >>, Date |-> NoDate,
            WatchedDate |-> NoDate]

\* One invocation of searchMovie, checkMovieHistory or syncMovieToTrakt.
\*  stage: the gateway call it awaits: search | history | histadd | ratings
\*  settled: pending | resolved | rejected
IdleTask ==
  [ fn |-> "none", stage |-> "none", entry |-> NoEntry, movie |-> 0,
    settled |-> "pending",
    flag |-> FALSE,        \* resolved: isInHistory / alreadyExists
    message |-> << >>,     \* rejected: the error message, in parts
    noToken |-> FALSE,     \* history: accessToken was null at the call
    log |-> << >> ]        \* history: the requests given to callTraktApi

\* A MovieStatus.  letterboxdRating is in hundredths (NoRating: null);
\* watchedDate and traktWatchedDate are NoDate when null; syncError is a
\* message in parts (<< >>: undefined).
NoRating == -2
NoMovie ==
  [ id |-> << >>, name |-> "", year |-> "", letterboxdRating |-> NoRating,
    watchedDate |-> NoDate, traktWatchedDate |-> NoDate, synced |-> FALSE,
    syncError |-> << >> ]

\* The two files that define the Home component.
Part003 == "unnamed/part_003"
AppPage == "src/app/page.tsx"

\* convertLetterboxdRatingToTrakt has not returned yet
Pending == -3

\* An activation of checkHistory.
\*  pc: idle | loop | search | history (the last two: the history route is
\*  awaiting api.trakt.tv for record i)
CheckLoops == {1, 2}
IdleCheck ==
  [ pc |-> "idle", i |-> 0, updatedMovies |-> << >>,
    at |-> 0,              \* history: the record handed to checkMovieInTraktHistory last
    attempted |-> {},      \* history: the records handed to it in this pass
    unauthAt |-> 0,        \* history: the first record it found no token for
    stopAt |-> 0,          \* history: the record in flight when 'Stop Checking' was clicked
    failed |-> {},         \* history: the records that were Failed when the pass started
    search |-> "",         \* history: the answer to the route's search for record at
    histAsked |-> FALSE,   \* history: the route asked for the history of record at
    histFailed |-> FALSE,  \* history: that request failed
    entries |-> << >> ]    \* history: the history entries answered

\* The activation of handleSync.  cancelled is the value of isSyncCancelled
\* its closure holds.  pc: idle | loop | await
IdleSync ==
  [ pc |-> "idle", i |-> 0, selectedMovies |-> << >>, successCount |-> 0,
    cancelled |-> FALSE,
    called |-> {},      \* history: the rows syncMovieToTrakt was called for
    wrote |-> {},       \* history: the rows a history-add or ratings-add was made for
    cancelAt |-> 0 ]    \* history: the row in flight when 'Cancel Sync' was clicked

Init ==
  /\ now = StartTime
  /\ accessToken = Null
  /\ lastRequestTime = 0
  /\ requestCount = 0
  /\ frame = [c \in AllCallers |-> IdleFrame]
  /\ calls = [c \in AllCallers |-> 0]
  /\ lastEnd = -1
  /\ sent = 0
  /\ cooldowns = 0
  /\ startedAt = -1
  /\ task = [c \in AllCallers |-> IdleTask]
  /\ trakt_token = ""
  /\ movies = << >>
  /\ isCheckingHistory = FALSE
  /\ isCancelled = FALSE
  /\ isProcessing = FALSE
  /\ isSyncCancelled = FALSE
  /\ newMoviesSelection = {}
  /\ existingMoviesSelection = {}
  /\ check = [k \in CheckLoops |-> IdleCheck]
  /\ sync = IdleSync
  /\ passes = [check |-> 0, sync |-> 0, cancels |-> 0]
  /\ direct = 0
  /\ isAuthenticated = FALSE
  /\ home = Part003
  /\ ratingArg = << >>
  /\ converted = Pending

\* ---------------------------------------------------------------- helpers
Min(S) == CHOOSE x \in S : \A y \in S : x <= y

\* initTraktClient: config.access_token || null
TokenOf(cfgToken) == IF cfgToken \in {"undefined", ""} THEN Null ELSE cfgToken

TokenMissing_mut(tok) == FALSE

\* callTraktApi: if (!accessToken)
TokenMissing(tok) == tok = Null

SpacingSleep_mut(t, last) == 0

\* callTraktApi: the sleep the spacing check asks for (0: none)
SpacingSleep(t, last) ==
  IF t - last < MIN_REQUEST_INTERVAL
    THEN MIN_REQUEST_INTERVAL - (t - last)
    ELSE 0

BatchDue_mut(count) == count > BATCH_SIZE

\* callTraktApi: if (requestCount >= BATCH_SIZE), read after requestCount++
BatchDue(count) == count >= BATCH_SIZE

ShouldRetry_mutBound(err, rc) == err.kind = "http429" /\ rc <= MAX_RETRIES

ShouldRetry_mutAny(err, rc) == rc < MAX_RETRIES

\* callTraktApi: error.response?.status === 429 && retryCount < 3
ShouldRetry(err, rc) == err.kind = "http429" /\ rc < MAX_RETRIES

BackoffTime_mut(rc) == (2 ^ (rc + 1)) * 1000

\* callTraktApi: Math.pow(2, retryCount + 2) * 1000
BackoffTime(rc) == (2 ^ (rc + 2)) * 1000

\* No loop of the page is between two awaits.
PageQuiet ==
  /\ \A k \in CheckLoops : check[k].pc # "loop"
  /\ sync.pc # "loop"

\* No other caller is between two awaits (one JavaScript thread).
Exclusive(c) ==
  /\ \A o \in AllCallers \ {c} : frame[o].pc \notin {"batch", "send"}
  /\ PageQuiet

Waiting(c) == frame[c].pc \in {"spacing", "cooldown", "inflight", "backoff"}

Runnable(c) ==
  \/ frame[c].pc \in {"batch", "send", "returned", "thrown"}
  \/ Waiting(c) /\ frame[c].wake <= now

\* callTraktApi from its first line to its first await: the token check
\* and the spacing check, for an activation f whose arguments are set.
EntryFrame(f, j) ==
  IF TokenMissing(accessToken)
    THEN [f EXCEPT !.pc = "thrown", !.result = NotInitialized]
    ELSE LET d == SpacingSleep(now, lastRequestTime) IN
         [f EXCEPT !.pc = IF d > 0 THEN "spacing" ELSE "batch",
                   !.wake = IF d > 0 THEN now + d + j ELSE f.wake,
                   !.readLast = lastRequestTime,
                   !.readAt = now]

\* ---------------------------------------------------------------- actions
\* initTraktClient(config)
InitTraktClient(cfgToken) ==
  /\ \A c \in AllCallers : frame[c].pc = "idle" /\ task[c].fn = "none"
  /\ accessToken' = TokenOf(cfgToken)
  /\ UNCHANGED <<now, lastRequestTime, requestCount, frame, calls, lastEnd,
                 sent, cooldowns, startedAt, apiVars, pageVars, convVars>>

\* callTraktApi(endpoint, data, method) called with retryCount = 0
Invoke(c, r, j) ==
  /\ frame' = [frame EXCEPT ![c] = EntryFrame([IdleFrame EXCEPT !.req = r], j)]
  /\ calls' = [calls EXCEPT ![c] = @ + 1]
  /\ startedAt' = IF startedAt = -1 THEN now ELSE startedAt

\* callTraktApi called by a caller that is not one of the exported functions
CallTraktApi(c, r, j) ==
  /\ frame[c].pc = "idle"
  /\ task[c].fn = "none"
  /\ Exclusive(c)
  /\ Invoke(c, r, j)
  /\ UNCHANGED <<now, accessToken, lastRequestTime, requestCount, lastEnd,
                 sent, cooldowns, apiVars, pageVars, convVars>>

\* the spacing sleep is over
WakeSpacing(c) ==
  /\ frame[c].pc = "spacing"
  /\ frame[c].wake <= now
  /\ Exclusive(c)
  /\ frame' = [frame EXCEPT ![c].pc = "batch"]
  /\ UNCHANGED <<now, accessToken, lastRequestTime, requestCount, calls,
                 lastEnd, sent, cooldowns, startedAt, apiVars, pageVars, convVars>>

\* requestCount++ and the batch check
Batch(c, j) ==
  /\ frame[c].pc = "batch"
  /\ requestCount' = requestCount + 1
  /\ frame' = IF BatchDue(requestCount + 1)
                THEN [frame EXCEPT ![c].pc = "cooldown",
                                   ![c].wake = now + BATCH_INTERVAL + j]
                ELSE [frame EXCEPT ![c].pc = "send"]
  /\ UNCHANGED <<now, accessToken, lastRequestTime, calls, lastEnd, sent,
                 cooldowns, startedAt, apiVars, pageVars, convVars>>

\* the batch cooldown is over: requestCount = 0
WakeCooldown(c) ==
  /\ frame[c].pc = "cooldown"
  /\ frame[c].wake <= now
  /\ Exclusive(c)
  /\ requestCount' = 0
  /\ cooldowns' = cooldowns + 1
  /\ frame' = [frame EXCEPT ![c].pc = "send"]
  /\ UNCHANGED <<now, accessToken, lastRequestTime, calls, lastEnd, sent,
                 startedAt, apiVars, pageVars, convVars>>

\* axios(config): the transport request begins; it will take d ms
Send(c, d) ==
  /\ frame[c].pc = "send"
  /\ sent' = sent + 1
  /\ frame' = [frame EXCEPT ![c].pc = "inflight",
                            ![c].wake = now + d,
                            ![c].attempts = @ + 1,
                            ![c].sentReqs = @ \cup {frame[c].req},
                            ![c].begin = now,
                            ![c].prevEnd = lastEnd,
                            ![c].ordinal = sent + 1]
  /\ UNCHANGED <<now, accessToken, lastRequestTime, requestCount, calls,
                 lastEnd, cooldowns, startedAt, apiVars, pageVars, convVars>>

\* the transport answers with a body: lastRequestTime = Date.now(); return
RecvOk(c, b) ==
  /\ frame[c].pc = "inflight"
  /\ frame[c].wake <= now
  /\ Exclusive(c)
  /\ lastRequestTime' = now
  /\ lastEnd' = now
  /\ frame' = [frame EXCEPT ![c].pc = "returned",
                            ![c].result = Body(b, frame[c].ordinal),
                            ![c].last = Body(b, frame[c].ordinal)]
  /\ UNCHANGED <<now, accessToken, requestCount, calls, sent, cooldowns,
                 startedAt, apiVars, pageVars, convVars>>

\* the transport fails with error kind e: the catch block
RecvFail(c, e, j) ==
  /\ frame[c].pc = "inflight"
  /\ frame[c].wake <= now
  /\ Exclusive(c)
  /\ lastEnd' = now
  /\ LET err == Error(e, frame[c].ordinal) IN
     frame' = IF ShouldRetry(err, frame[c].retryCount)
                THEN [frame EXCEPT
                        ![c].pc = "backoff",
                        ![c].wake = now + BackoffTime(frame[c].retryCount) + j,
                        ![c].backoffs =
                           Append(@, BackoffTime(frame[c].retryCount)),
                        ![c].last = err]
                ELSE [frame EXCEPT ![c].pc = "thrown",
                                   ![c].result = err,
                                   ![c].last = err]
  /\ UNCHANGED <<now, accessToken, lastRequestTime, requestCount, calls,
                 sent, cooldowns, startedAt, apiVars, pageVars, convVars>>

\* HTTP 429
Recv429(c, j) == RecvFail(c, "http429", j)

\* another status or a network error
RecvErr(c, e) == e \in OtherErrors /\ RecvFail(c, e, 0)

\* the backoff sleep is over: return callTraktApi(..., retryCount + 1)
WakeBackoff(c, j) ==
  /\ frame[c].pc = "backoff"
  /\ frame[c].wake <= now
  /\ Exclusive(c)
  /\ frame' = [frame EXCEPT ![c] =
                 EntryFrame([frame[c] EXCEPT !.retryCount = @ + 1], j)]
  /\ UNCHANGED <<now, accessToken, lastRequestTime, requestCount, calls,
                 lastEnd, sent, cooldowns, startedAt, apiVars, pageVars, convVars>>

\* the awaiting caller takes the settled result
Return(c) ==
  /\ frame[c].pc \in {"returned", "thrown"}
  /\ task[c].fn = "none"
  /\ Exclusive(c)
  /\ frame' = [frame EXCEPT ![c] = IdleFrame]
  /\ UNCHANGED <<now, accessToken, lastRequestTime, requestCount, calls,
                 lastEnd, sent, cooldowns, startedAt, apiVars, pageVars, convVars>>

\* nothing can run: the clock advances to the next timer or answer
Tick ==
  /\ \A c \in AllCallers : ~Runnable(c)
  /\ PageQuiet
  /\ \E c \in AllCallers : Waiting(c)
  /\ now' = Min({frame[c].wake : c \in {x \in AllCallers : Waiting(x)}})
  /\ UNCHANGED <<accessToken, lastRequestTime, requestCount, frame, calls,
                 lastEnd, sent, cooldowns, startedAt, apiVars, pageVars, convVars>>

\* the caller lets d ms pass after a completed request, before its next call
Pause(d) ==
  /\ \A c \in AllCallers : frame[c].pc = "idle"
  /\ now = lastEnd
  /\ now' = now + d
  /\ UNCHANGED <<accessToken, lastRequestTime, requestCount, frame, calls,
                 lastEnd, sent, cooldowns, startedAt, apiVars, pageVars, convVars>>

\* -------------------------------------- one sequential caller (caller 1)
GatewayStep ==
  \/ WakeSpacing(1)
  \/ Batch(1, 0)
  \/ WakeCooldown(1)
  \/ \E d \in Durations : Send(1, d)
  \/ \E b \in Bodies : RecvOk(1, b)
  \/ Recv429(1, 0)
  \/ \E e \in OtherErrors : RecvErr(1, e)
  \/ WakeBackoff(1, 0)
  \/ Return(1)
  \/ Tick

Next ==
  \/ \E t \in ConfigTokens : InitTraktClient(t)
  \/ \E r \in Requests : calls[1] < MaxCalls /\ CallTraktApi(1, r, 0)
  \/ \E d \in Pauses : calls[1] < MaxCalls /\ Pause(d)
  \/ GatewayStep

Spec == Init /\ [][Next]_vars

\* timers fire, the transport answers every request, continuations run
LiveSpec == Spec /\ WF_vars(GatewayStep)

\* ------------------- back-to-back calls, transport succeeds in zero time
\* the state after initTraktClient(mockTraktConfig)
IdealInit ==
  /\ now = StartTime
  /\ accessToken = "test-token"
  /\ lastRequestTime = 0
  /\ requestCount = 0
  /\ frame = [c \in AllCallers |-> IdleFrame]
  /\ calls = [c \in AllCallers |-> 0]
  /\ lastEnd = -1
  /\ sent = 0
  /\ cooldowns = 0
  /\ startedAt = -1
  /\ task = [c \in AllCallers |-> IdleTask]
  /\ trakt_token = ""
  /\ movies = << >>
  /\ isCheckingHistory = FALSE
  /\ isCancelled = FALSE
  /\ isProcessing = FALSE
  /\ isSyncCancelled = FALSE
  /\ newMoviesSelection = {}
  /\ existingMoviesSelection = {}
  /\ check = [k \in CheckLoops |-> IdleCheck]
  /\ sync = IdleSync
  /\ passes = [check |-> 0, sync |-> 0, cancels |-> 0]
  /\ direct = 0
  /\ isAuthenticated = FALSE
  /\ home = Part003
  /\ ratingArg = << >>
  /\ converted = Pending

IdealNext ==
  \/ \E r \in Requests, j \in Jitter :
        calls[1] < MaxIdealCalls /\ CallTraktApi(1, r, j)
  \/ WakeSpacing(1)
  \/ \E j \in Jitter : Batch(1, j)
  \/ WakeCooldown(1)
  \/ Send(1, 0)
  \/ \E b \in Bodies : RecvOk(1, b)
  \/ Return(1)
  \/ Tick

IdealSpec == IdealInit /\ [][IdealNext]_vars

\* ---------- two callers with no external serialization, transport succeeds
ConcNext ==
  \/ \E c \in AllCallers, r \in Requests :
        calls[c] < MaxConcCalls /\ CallTraktApi(c, r, 0)
  \/ \E c \in AllCallers : WakeSpacing(c)
  \/ \E c \in AllCallers : Batch(c, 0)
  \/ \E c \in AllCallers : WakeCooldown(c)
  \/ \E c \in AllCallers, d \in Durations : Send(c, d)
  \/ \E c \in AllCallers, b \in Bodies : RecvOk(c, b)
  \/ \E c \in AllCallers : Return(c)
  \/ Tick

ConcSpec == IdealInit /\ [][ConcNext]_vars

\* =================================================== exported functions
\* ------------------------------------------ convertLetterboxdRatingToTrakt
\* A rating text is a sequence of characters; numbers are in hundredths.
NaN == -1
DigitValue ==
  ("0" :> 0) @@ ("1" :> 1) @@ ("2" :> 2) @@ ("3" :> 3) @@ ("4" :> 4) @@
  ("5" :> 5) @@ ("6" :> 6) @@ ("7" :> 7) @@ ("8" :> 8) @@ ("9" :> 9)
IsDigit(ch) == ch \in DOMAIN DigitValue

RECURSIVE DigitsFrom(_, _)
DigitsFrom(t, i) ==
  IF i <= Len(t) /\ IsDigit(t[i])
    THEN <<t[i]>> \o DigitsFrom(t, i + 1)
    ELSE << >>

RECURSIVE Decimal(_)
Decimal(ds) ==
  IF ds = << >> THEN 0
  ELSE 10 * Decimal(SubSeq(ds, 1, Len(ds) - 1)) + DigitValue[ds[Len(ds)]]

\* parseFloat: the longest numeric prefix (digits, '.', digits), in
\* hundredths (two fraction digits are kept); NaN when there is none
ParseFloat(t) ==
  LET ip == DigitsFrom(t, 1)
      k == Len(ip)
      fp == IF k + 1 <= Len(t) /\ t[k + 1] = "." THEN DigitsFrom(t, k + 2)
            ELSE << >>
      frac == IF fp = << >> THEN 0
              ELSE IF Len(fp) = 1 THEN 10 * DigitValue[fp[1]]
              ELSE 10 * DigitValue[fp[1]] + DigitValue[fp[2]]
  IN IF ip = << >> /\ fp = << >> THEN NaN ELSE 100 * Decimal(ip) + frac

\* Math.round of a number in hundredths: floor(x + 0.5)
MathRound_mut(h) == h \div 100
MathRound(h) == (h + 50) \div 100

convertLetterboxdRatingToTrakt(rating) ==
  IF rating = << >> THEN 0
  ELSE LET numRating == ParseFloat(rating) IN
       IF numRating = NaN THEN NaN ELSE MathRound(numRating * 2)

\* rating > 0 (false for NaN)
Positive_mut(x) == x # 0
Positive_mutZero(x) == x # NaN /\ x >= 0
Positive(x) == x # NaN /\ x > 0

\* ------------------------------------------------------------------ dates
ValidDays == {"2023-01-01", "2023-06-01"}
DateOnly(day) == [day |-> day, time |-> ""]
InvalidDate == [day |-> "invalid-date", time |-> ""]
\* new Date(text) is a valid date
IsValidDate(text) == text.day \in ValidDays
\* new Date(text).toISOString(): a date-only text is midnight UTC
ToISOString_mut(text) == text
ToISOString(text) ==
  [day |-> text.day,
   time |-> IF text.time = "" THEN "T00:00:00.000Z" ELSE text.time]

\* --------------------------------------------------------------- requests
SearchRequest(name, year) ==
  [endpoint |-> <<"/search/movie", name, year>>, data |-> << >>,
   method |-> "GET"]
HistoryRequest(movie) ==
  [endpoint |-> <<"/sync/history/movies", movie>>, data |-> << >>,
   method |-> "GET"]
HistoryAddRequest(movie, watchedAt) ==
  [endpoint |-> <<"/sync/history">>,
   data |-> <<[ids |-> movie, watched_at |-> watchedAt, rated_at |-> NoDate,
               rating |-> 0]>>,
   method |-> "POST"]
RatingsRequest(movie, rating, ratedAt) ==
  [endpoint |-> <<"/sync/ratings">>,
   data |-> <<[ids |-> movie, watched_at |-> NoDate, rated_at |-> ratedAt,
               rating |-> rating]>>,
   method |-> "POST"]

\* what the remote answers with: matches, history entries, a summary
ResponseBodies(req) ==
  IF req.endpoint = << >> THEN {<< >>}
  ELSE IF req.endpoint[1] = "/search/movie" THEN {<< >>, <<123>>}
  ELSE IF req.endpoint[1] = "/sync/history/movies"
    THEN {<< >>, <<[day |-> "2023-01-01", time |-> "T10:00:00.000Z"]>>}
  ELSE {<<"added">>}

\* --------------------------------------------------------------- messages
IsAxiosError(err) == err.kind \in {"http429", "http500", "network"}
\* error.response?.data?.message || error.message: the sync route answers
\* { error: ... }, so the text is axios's own
AxiosMessage(err) ==
  IF err.kind = "network" THEN <<"Network Error">>
  ELSE IF err.kind = "http429" THEN <<"Request failed with status code 429">>
  ELSE <<"Request failed with status code 500">>
SearchFailed(e) ==
  <<"Failed to search for movie: ", e.Name, " (", e.Year, ")">>
SearchFailedAxios(err) == <<"Failed to search for movie: ">> \o AxiosMessage(err)
SyncFailed(e) == <<"Failed to sync movie: ", e.Name, " (", e.Year, ")">>
SyncFailedAxios(err) == <<"Failed to sync movie: ">> \o AxiosMessage(err)
Contains(message, part) == \E i \in DOMAIN message : message[i] = part

Resolved(t, movie, flag) ==
  [t EXCEPT !.settled = "resolved", !.stage = "none", !.movie = movie,
            !.flag = flag]
Rejected(t, message) ==
  [t EXCEPT !.settled = "rejected", !.stage = "none", !.message = message]

\* searchMovie: what it settles with, given the settled gateway call f
SearchOutcome(t, f) ==
  IF f.pc = "returned"
    THEN IF f.result.body = << >>
           THEN Rejected(t, SearchFailed(t.entry))
           ELSE Resolved(t, f.result.body[1], FALSE)
    ELSE IF IsAxiosError(f.result)
           THEN Rejected(t, SearchFailedAxios(f.result))
           ELSE Rejected(t, SearchFailed(t.entry))

\* checkMovieHistory: response && response.length > 0, false on any error
InHistory_mut(f) == FALSE
InHistory(f) == f.pc = "returned" /\ f.result.body # << >>

\* syncMovieToTrakt: the catch block around the two writes
SyncError_mut(t, err) == Resolved(t, t.movie, FALSE)
SyncError(t, err) ==
  IF IsAxiosError(err)
    THEN Rejected(t, SyncFailedAxios(err))
    ELSE Rejected(t, SyncFailed(t.entry))

\* entry.WatchedDate || entry.Date
WatchedDateOf(e) == IF e.WatchedDate # NoDate THEN e.WatchedDate ELSE e.Date

\* --------------------------------------------------------------- actions
\* a task hands request r to callTraktApi and awaits it at stage st
Await(c, t, st, r) ==
  /\ task' = [task EXCEPT ![c] = [t EXCEPT !.stage = st,
                                           !.log = Append(@, r)]]
  /\ Invoke(c, r, 0)

\* a task settles; its gateway activation is gone
Settle(c, t) ==
  /\ task' = [task EXCEPT ![c] = t]
  /\ frame' = [frame EXCEPT ![c] = IdleFrame]
  /\ UNCHANGED <<calls, startedAt, pageVars, convVars>>

NewTask(fn, e) ==
  [IdleTask EXCEPT !.fn = fn, !.entry = e,
                   !.noToken = (accessToken = Null)]

\* searchMovie(name, year)
SearchMovie(c, e) ==
  /\ task[c].fn = "none" /\ frame[c].pc = "idle"
  /\ Exclusive(c)
  /\ Await(c, NewTask("searchMovie", e), "search",
           SearchRequest(e.Name, e.Year))
  /\ UNCHANGED <<now, accessToken, lastRequestTime, requestCount, lastEnd,
                 sent, cooldowns, pageVars, convVars>>

\* checkMovieHistory(movie)
CheckMovieHistory(c, movie) ==
  /\ task[c].fn = "none" /\ frame[c].pc = "idle"
  /\ Exclusive(c)
  /\ Await(c, [NewTask("checkMovieHistory", NoEntry) EXCEPT !.movie = movie],
           "history", HistoryRequest(movie))
  /\ UNCHANGED <<now, accessToken, lastRequestTime, requestCount, lastEnd,
                 sent, cooldowns, pageVars, convVars>>

\* syncMovieToTrakt(entry): begins with searchMovie(entry.Name, entry.Year)
SyncMovieToTrakt(c, e) ==
  /\ task[c].fn = "none" /\ frame[c].pc = "idle"
  /\ Exclusive(c)
  /\ Await(c, NewTask("syncMovieToTrakt", e), "search",
           SearchRequest(e.Name, e.Year))
  /\ UNCHANGED <<now, accessToken, lastRequestTime, requestCount, lastEnd,
                 sent, cooldowns, pageVars, convVars>>

\* the search call settled: searchMovie settles; syncMovieToTrakt goes on
\* to checkMovieHistory(movie) unless searchMovie rejected
SearchSettled(c) ==
  /\ task[c].stage = "search"
  /\ frame[c].pc \in {"returned", "thrown"}
  /\ Exclusive(c)
  /\ LET o == SearchOutcome(task[c], frame[c]) IN
     IF task[c].fn = "searchMovie" \/ o.settled = "rejected"
       THEN Settle(c, o)
       ELSE Await(c, [task[c] EXCEPT !.movie = o.movie], "history",
                  HistoryRequest(o.movie))
  /\ UNCHANGED <<now, accessToken, lastRequestTime, requestCount, lastEnd,
                 sent, cooldowns, pageVars, convVars>>

\* the history call settled: checkMovieHistory settles; syncMovieToTrakt
\* returns alreadyExists or goes on to its writes
HistorySettled(c) ==
  /\ task[c].stage = "history"
  /\ frame[c].pc \in {"returned", "thrown"}
  /\ Exclusive(c)
  /\ LET t == task[c]
         watchedDate == WatchedDateOf(t.entry)
         rating == convertLetterboxdRatingToTrakt(t.entry.Rating)
     IN
     IF t.fn = "checkMovieHistory" \/ InHistory(frame[c])
       THEN Settle(c, Resolved(t, t.movie, InHistory(frame[c])))
     ELSE IF watchedDate # NoDate
       THEN IF IsValidDate(watchedDate)
              THEN Await(c, t, "histadd",
                         HistoryAddRequest(t.movie, ToISOString(watchedDate)))
              ELSE Settle(c, SyncError(t, Error("RangeError", 0)))
     ELSE IF Positive(rating)
       THEN Await(c, t, "ratings", RatingsRequest(t.movie, rating, NoDate))
     ELSE Settle(c, Resolved(t, t.movie, FALSE))
  /\ UNCHANGED <<now, accessToken, lastRequestTime, requestCount, lastEnd,
                 sent, cooldowns, pageVars, convVars>>

\* the history-add call settled
HistoryAddSettled(c) ==
  /\ task[c].stage = "histadd"
  /\ frame[c].pc \in {"returned", "thrown"}
  /\ Exclusive(c)
  /\ LET t == task[c]
         watchedDate == WatchedDateOf(t.entry)
         rating == convertLetterboxdRatingToTrakt(t.entry.Rating)
     IN
     IF frame[c].pc = "thrown"
       THEN Settle(c, SyncError(t, frame[c].result))
     ELSE IF Positive(rating)
       THEN Await(c, t, "ratings",
                  RatingsRequest(t.movie, rating, ToISOString(watchedDate)))
     ELSE Settle(c, Resolved(t, t.movie, FALSE))
  /\ UNCHANGED <<now, accessToken, lastRequestTime, requestCount, lastEnd,
                 sent, cooldowns, pageVars, convVars>>

\* the ratings-add call settled
RatingsSettled(c) ==
  /\ task[c].stage = "ratings"
  /\ frame[c].pc \in {"returned", "thrown"}
  /\ Exclusive(c)
  /\ IF frame[c].pc = "thrown"
       THEN Settle(c, SyncError(task[c], frame[c].result))
       ELSE Settle(c, Resolved(task[c], task[c].movie, FALSE))
  /\ UNCHANGED <<now, accessToken, lastRequestTime, requestCount, lastEnd,
                 sent, cooldowns, pageVars, convVars>>

\* the caller of the exported function takes its outcome
TaskReturn(c) ==
  /\ task[c].settled # "pending"
  /\ Exclusive(c)
  /\ task' = [task EXCEPT ![c] = IdleTask]
  /\ UNCHANGED <<now, accessToken, lastRequestTime, requestCount, frame,
                 calls, lastEnd, sent, cooldowns, startedAt, pageVars, convVars>>

\* ------------------------------- one caller of the exported functions
RatingTexts == {<< >>, <<"0">>, <<"4", ".", "5">>, <<"i", "n", "v">>}
ApiEntries ==
  { [Name |-> "Movie", Year |-> "2023", Rating |-> r, Date |-> d,
     WatchedDate |-> w] :
      r \in RatingTexts, d \in {NoDate, DateOnly("2023-01-01")},
      w \in {NoDate, InvalidDate} }

ApiNext ==
  \/ \E t \in ConfigTokens : InitTraktClient(t)
  \/ \E e \in ApiEntries : calls[1] < MaxApiCalls /\ SearchMovie(1, e)
  \/ calls[1] < MaxApiCalls /\ CheckMovieHistory(1, 123)
  \/ \E e \in ApiEntries : calls[1] < MaxApiCalls /\ SyncMovieToTrakt(1, e)
  \/ SearchSettled(1)
  \/ HistorySettled(1)
  \/ HistoryAddSettled(1)
  \/ RatingsSettled(1)
  \/ TaskReturn(1)
  \/ WakeSpacing(1)
  \/ Batch(1, 0)
  \/ WakeCooldown(1)
  \/ Send(1, 0)
  \/ \E b \in ResponseBodies(frame[1].req) : RecvOk(1, b)
  \/ Recv429(1, 0)
  \/ \E e \in OtherErrors : RecvErr(1, e)
  \/ WakeBackoff(1, 0)
  \/ Tick

ApiSpec == Init /\ [][ApiNext]_vars

\* ------------------------------------------------- the converter on its own
RatingChars == {"0", "1", "2", "3", "4", "5", "6", "7", ".", "x"}
RatingArgs == UNION {[1..n -> RatingChars] : n \in 0..MaxRatingLen}

\* the module is loaded and some text is about to be converted
ConvInit ==
  /\ now = StartTime
  /\ accessToken = Null
  /\ lastRequestTime = 0
  /\ requestCount = 0
  /\ frame = [c \in AllCallers |-> IdleFrame]
  /\ calls = [c \in AllCallers |-> 0]
  /\ lastEnd = -1
  /\ sent = 0
  /\ cooldowns = 0
  /\ startedAt = -1
  /\ task = [c \in AllCallers |-> IdleTask]
  /\ trakt_token = ""
  /\ movies = << >>
  /\ isCheckingHistory = FALSE
  /\ isCancelled = FALSE
  /\ isProcessing = FALSE
  /\ isSyncCancelled = FALSE
  /\ newMoviesSelection = {}
  /\ existingMoviesSelection = {}
  /\ check = [k \in CheckLoops |-> IdleCheck]
  /\ sync = IdleSync
  /\ passes = [check |-> 0, sync |-> 0, cancels |-> 0]
  /\ direct = 0
  /\ isAuthenticated = FALSE
  /\ home = Part003
  /\ ratingArg \in RatingArgs
  /\ converted = Pending

\* convertLetterboxdRatingToTrakt(ratingArg)
ConvertRating ==
  /\ converted = Pending
  /\ converted' = convertLetterboxdRatingToTrakt(ratingArg)
  /\ UNCHANGED <<now, accessToken, lastRequestTime, requestCount, frame,
                 calls, lastEnd, sent, cooldowns, startedAt, apiVars,
                 pageVars, ratingArg>>

ConvNext == ConvertRating

ConvSpec == ConvInit /\ [][ConvNext]_vars

\* ================================================================ the page
Unchecked == <<"Unchecked">>
ReadyToSync == <<"Ready to sync">>
AlreadyInTrakt == <<"Already in Trakt">>
\* syncError?.startsWith('Failed')
StartsWithFailed(message) ==
  /\ message # << >>
  /\ message[1] \in {"Failed to search for movie: ", "Failed to sync movie: ",
                      "Failed to check movie history"}

\* !token, of the token read from localStorage
NoToken_mut(token) == FALSE
NoToken(token) == token = ""

\* the messages checkMovieInTraktHistory throws
NotAuthenticated == <<"Not authenticated">>
RouteFailed == <<"Failed to check movie history">>

\* Number.prototype.toString of a number in hundredths
DigitChar == <<"0", "1", "2", "3", "4", "5", "6", "7", "8", "9">>
RECURSIVE IntChars(_)
IntChars(n) ==
  IF n < 10 THEN <<DigitChar[n + 1]>>
  ELSE IntChars(n \div 10) \o <<DigitChar[(n % 10) + 1]>>
NumberToString(h) ==
  IF h = NaN THEN <<"N", "a", "N">>
  ELSE IntChars(h \div 100) \o
       (IF h % 100 = 0 THEN << >>
        ELSE IF h % 10 = 0 THEN <<".", DigitChar[((h % 100) \div 10) + 1]>>
        ELSE <<".", DigitChar[((h % 100) \div 10) + 1],
               DigitChar[(h % 10) + 1]>>)

\* processCSV: the MovieStatus made from one entry
MovieOfEntry(e) ==
  [ id |-> <<e.Name, "-", e.Year>>, name |-> e.Name, year |-> e.Year,
    letterboxdRating |->
       IF e.Rating # << >> THEN ParseFloat(e.Rating) ELSE NoRating,
    watchedDate |-> WatchedDateOf(e),
    traktWatchedDate |-> NoDate, synced |-> FALSE, syncError |-> Unchecked ]

\* handleSync: the LetterboxdEntry made from a MovieStatus
EntryOfMovie(m) ==
  [ Name |-> m.name, Year |-> m.year,
    Rating |-> IF m.letterboxdRating = NoRating THEN << >>
               ELSE NumberToString(m.letterboxdRating),
    Date |-> m.watchedDate, WatchedDate |-> NoDate ]

\* the three lists the page shows
IsUnchecked(m) ==
  IF home = Part003
    THEN m.syncError = Unchecked \/ StartsWithFailed(m.syncError)
    ELSE m.syncError = Unchecked
IsExisting(m) == m.synced \/ m.syncError = AlreadyInTrakt
uncheckedMovies(ms) == SelectSeq(ms, IsUnchecked)
existingMovies(ms) == SelectSeq(ms, IsExisting)
IsNew(ms, m) ==
  /\ ~m.synced
  /\ m.syncError # AlreadyInTrakt
  /\ m.syncError # Unchecked
  /\ home = Part003 =>
       /\ ~StartsWithFailed(m.syncError)
       /\ ~\E j \in 1..Len(ms) : IsExisting(ms[j]) /\ ms[j].id = m.id
newMovies(ms) == SelectSeq(ms, LAMBDA m : IsNew(ms, m))

\* checkHistory: the record is not skipped as checked already
NeedsCheck_mut(m) == m.syncError = Unchecked
NeedsCheck(m) ==
  IF home = Part003
    THEN m.syncError = Unchecked \/ StartsWithFailed(m.syncError)
    ELSE m.syncError = Unchecked \/ m.syncError = <<"Failed to check history">>

\* list.filter((_, index) => selection[index]); rows are numbered from 1
Selected(list, selection) ==
  LET F[i \in 0..Len(list)] ==
        IF i = 0 THEN << >>
        ELSE IF i \in selection THEN Append(F[i - 1], list[i]) ELSE F[i - 1]
  IN F[Len(list)]

\* updated.findIndex((m) => m.id === id); 0: not found
FindIndex(ms, id) ==
  IF \E j \in 1..Len(ms) : ms[j].id = id
    THEN Min({j \in 1..Len(ms) : ms[j].id = id})
    ELSE 0

\* new Date(text).toISOString().split('T')[0]
CalendarDay(text) == ToISOString(text).day

\* what api.trakt.tv answers to the history route
SearchAnswers == {"none", "found", "error"}
T1 == [day |-> "2023-01-01", time |-> "T10:00:00.000Z"]
T2 == [day |-> "2023-06-01", time |-> "T10:00:00.000Z"]
HistoryAnswers == {<< >>, <<T1>>, <<T2>>}

\* checkHistory: the record after checkMovieInTraktHistory threw message
\* (the catch block)
CheckFailed(m, message) ==
  [m EXCEPT !.syncError = IF home = Part003 THEN Unchecked ELSE message,
            !.synced = FALSE]

\* checkMovieInTraktHistory and checkHistory: the record after the route
\* answered with the history entries h of the matched movie
Classified_mut(m, h) ==
  [m EXCEPT !.syncError = IF h # << >> THEN AlreadyInTrakt ELSE ReadyToSync,
            !.traktWatchedDate = IF h # << >> THEN h[1] ELSE NoDate,
            !.synced = h # << >>]
Classified(m, h) ==
  LET dataExists == h # << >>
      watchedAt == IF dataExists THEN h[1] ELSE NoDate
      movieWatchDate ==
        IF m.watchedDate # NoDate THEN CalendarDay(m.watchedDate) ELSE ""
      traktWatchDate == IF watchedAt # NoDate THEN CalendarDay(watchedAt) ELSE ""
      isRewatch == /\ movieWatchDate # ""
                   /\ traktWatchDate # ""
                   /\ movieWatchDate # traktWatchDate
      alreadyExists == dataExists /\ ~isRewatch
  IN IF home = AppPage
       THEN [m EXCEPT
               !.syncError = IF dataExists THEN AlreadyInTrakt
                             ELSE ReadyToSync,
               !.traktWatchedDate = watchedAt,
               !.synced = dataExists]
     ELSE IF m.watchedDate # NoDate /\ ~IsValidDate(m.watchedDate)
       THEN CheckFailed(m, <<"RangeError">>)  \* toISOString throws
       ELSE [m EXCEPT
               !.syncError = IF alreadyExists THEN AlreadyInTrakt
                             ELSE ReadyToSync,
               !.traktWatchedDate = watchedAt,
               !.synced = alreadyExists /\ m.watchedDate = DateOnly(watchedAt.day)]

\* the route answered 404: the movie is not known to Trakt
NotFound_mut(m) == CheckFailed(m, RouteFailed)
NotFound(m) ==
  [m EXCEPT !.syncError = ReadyToSync, !.traktWatchedDate = NoDate,
            !.synced = FALSE]

\* ---------------------------------------------------------------- actions
\* the callback page, open in another tab, stores the token
Login ==
  /\ PageQuiet /\ Exclusive(0)
  /\ trakt_token = ""
  /\ trakt_token' = "test-token"
  /\ UNCHANGED <<isAuthenticated, home, convVars>>
  /\ UNCHANGED <<now, accessToken, lastRequestTime, requestCount, frame,
                 calls, lastEnd, sent, cooldowns, startedAt, task, movies,
                 isCheckingHistory, isCancelled, isProcessing,
                 isSyncCancelled, newMoviesSelection,
                 existingMoviesSelection, check, sync, passes, direct>>

\* handleLogout: the button 'Logout', or the profile request failed
HandleLogout ==
  /\ PageQuiet /\ Exclusive(0)
  /\ isAuthenticated
  /\ trakt_token' = ""
  /\ isAuthenticated' = FALSE
  /\ UNCHANGED <<home, convVars>>
  /\ UNCHANGED <<now, accessToken, lastRequestTime, requestCount, frame,
                 calls, lastEnd, sent, cooldowns, startedAt, task, movies,
                 isCheckingHistory, isCancelled, isProcessing,
                 isSyncCancelled, newMoviesSelection,
                 existingMoviesSelection, check, sync, passes, direct>>

\* handleLogout of the page open in another tab
RemoveToken ==
  /\ PageQuiet /\ Exclusive(0)
  /\ trakt_token # ""
  /\ trakt_token' = ""
  /\ UNCHANGED <<isAuthenticated, home, convVars>>
  /\ UNCHANGED <<now, accessToken, lastRequestTime, requestCount, frame,
                 calls, lastEnd, sent, cooldowns, startedAt, task, movies,
                 isCheckingHistory, isCancelled, isProcessing,
                 isSyncCancelled, newMoviesSelection,
                 existingMoviesSelection, check, sync, passes, direct>>

\* a checkbox of the table 'New Movies': setNewMoviesSelection
ToggleNew(j) ==
  /\ PageQuiet /\ Exclusive(0)
  /\ isAuthenticated
  /\ j \in 1..Len(newMovies(movies))
  /\ newMoviesSelection' = IF j \in newMoviesSelection
                             THEN newMoviesSelection \ {j}
                             ELSE newMoviesSelection \cup {j}
  /\ UNCHANGED <<isAuthenticated, home, convVars>>
  /\ UNCHANGED <<now, accessToken, lastRequestTime, requestCount, frame,
                 calls, lastEnd, sent, cooldowns, startedAt, task,
                 trakt_token, movies, isCheckingHistory, isCancelled,
                 isProcessing, isSyncCancelled, existingMoviesSelection,
                 check, sync, passes, direct>>

\* checkHistory, from the button 'Check Movies', up to its loop
CheckHistory(k) ==
  /\ PageQuiet /\ Exclusive(0)
  /\ isAuthenticated
  /\ uncheckedMovies(movies) # << >>
  /\ ~isCheckingHistory
  /\ check[k].pc = "idle"
  /\ \A o \in CheckLoops : o < k => check[o].pc # "idle"
  /\ isCheckingHistory' = TRUE
  /\ isCancelled' = FALSE
  /\ check' = [check EXCEPT ![k] =
                 [IdleCheck EXCEPT
                    !.pc = "loop", !.i = 1, !.updatedMovies = movies,
                    !.failed = {j \in 1..Len(movies) :
                                  StartsWithFailed(movies[j].syncError)}]]
  /\ passes' = [passes EXCEPT !.check = @ + 1]
  /\ UNCHANGED <<isAuthenticated, home, convVars>>
  /\ UNCHANGED <<now, accessToken, lastRequestTime, requestCount, frame,
                 calls, lastEnd, sent, cooldowns, startedAt, task,
                 trakt_token, movies, isProcessing, isSyncCancelled,
                 newMoviesSelection, existingMoviesSelection, sync, direct>>

\* the button 'Stop Checking'
StopChecking ==
  /\ PageQuiet /\ Exclusive(0)
  /\ isAuthenticated
  /\ uncheckedMovies(movies) # << >>
  /\ isCheckingHistory
  /\ isCheckingHistory' = FALSE
  /\ check' = [k \in CheckLoops |->
                 IF check[k].pc # "idle" /\ check[k].stopAt = 0
                   THEN [check[k] EXCEPT !.stopAt = check[k].i]
                   ELSE check[k]]
  /\ UNCHANGED <<isAuthenticated, home, convVars>>
  /\ UNCHANGED <<now, accessToken, lastRequestTime, requestCount, frame,
                 calls, lastEnd, sent, cooldowns, startedAt, task,
                 trakt_token, movies, isCancelled, isProcessing,
                 isSyncCancelled, newMoviesSelection,
                 existingMoviesSelection, sync, passes, direct>>

\* record i of the loop is handed to checkMovieInTraktHistory
Handed(ck) ==
  [ck EXCEPT !.at = ck.i, !.attempted = @ \cup {ck.i}, !.search = "",
             !.histAsked = FALSE, !.histFailed = FALSE, !.entries = << >>]

\* checkHistory: the top of one iteration, up to the fetch of the route
CheckIterate(k) ==
  /\ check[k].pc = "loop"
  /\ LET ck == check[k]
         um == ck.updatedMovies
         i == ck.i
         reverted == [j \in 1..Len(um) |->
                        IF j >= i /\ IsUnchecked(um[j])
                          THEN [um[j] EXCEPT !.syncError = Unchecked]
                          ELSE um[j]]
     IN
     IF i > Len(um) \/ isCancelled
       THEN \* the loop is left: finally
            /\ movies' = IF i > Len(um) THEN movies ELSE reverted
            /\ check' = [check EXCEPT ![k] = IdleCheck]
            /\ isCheckingHistory' = FALSE
            /\ isCancelled' = FALSE
     ELSE IF ~NeedsCheck(um[i])
       THEN \* already checked: continue
            /\ check' = [check EXCEPT ![k].i = i + 1]
            /\ UNCHANGED <<movies, isCheckingHistory, isCancelled>>
     ELSE IF NoToken(trakt_token)
       THEN \* 'Not authenticated' is thrown and caught by the loop
            /\ check' = [check EXCEPT ![k] =
                  [Handed(ck) EXCEPT
                     !.i = i + 1,
                     !.unauthAt = IF @ = 0 THEN i ELSE @,
                     !.updatedMovies[i] = CheckFailed(um[i], NotAuthenticated)]]
            /\ movies' = [um EXCEPT ![i] = CheckFailed(um[i], NotAuthenticated)]
            /\ UNCHANGED <<isCheckingHistory, isCancelled>>
     ELSE   \* fetch('/api/trakt/history?...')
            /\ check' = [check EXCEPT ![k] = [Handed(ck) EXCEPT !.pc = "search"]]
            /\ UNCHANGED <<movies, isCheckingHistory, isCancelled>>
  /\ UNCHANGED <<isAuthenticated, home, convVars>>
  /\ UNCHANGED <<now, accessToken, lastRequestTime, requestCount, frame,
                 calls, lastEnd, sent, cooldowns, startedAt, task,
                 trakt_token, isProcessing, isSyncCancelled,
                 newMoviesSelection, existingMoviesSelection, sync, passes,
                 direct>>

\* the record i of loop k is given its checked state m; setMovies.  ans is
\* the activation with what the route was answered
CheckUpdate(k, ans, m) ==
  LET i == check[k].i
      um == [check[k].updatedMovies EXCEPT ![i] = m]
  IN /\ check' = [check EXCEPT ![k] =
                    [ans EXCEPT !.pc = "loop", !.i = i + 1,
                                !.updatedMovies = um]]
     /\ movies' = um

\* the history route: axios.get of api.trakt.tv/search/movie, answered r
RouteSearch(k, r) ==
  /\ PageQuiet /\ Exclusive(0)
  /\ check[k].pc = "search"
  /\ direct' = direct + 1
  /\ LET m == check[k].updatedMovies[check[k].i]
         ans == [check[k] EXCEPT !.search = r]
     IN
     IF r = "found"
       THEN /\ check' = [check EXCEPT ![k] = [ans EXCEPT !.pc = "history"]]
            /\ UNCHANGED movies
       ELSE IF r = "none"
         THEN CheckUpdate(k, ans, NotFound(m))
         ELSE CheckUpdate(k, ans, CheckFailed(m, RouteFailed))
  /\ UNCHANGED <<isAuthenticated, home, convVars>>
  /\ UNCHANGED <<now, accessToken, lastRequestTime, requestCount, frame,
                 calls, lastEnd, sent, cooldowns, startedAt, task,
                 trakt_token, isCheckingHistory, isCancelled, isProcessing,
                 isSyncCancelled, newMoviesSelection,
                 existingMoviesSelection, sync, passes>>

\* the history route: axios.get of api.trakt.tv/sync/history/movies/<id>,
\* answered with the entries h
RouteHistory(k, h) ==
  /\ PageQuiet /\ Exclusive(0)
  /\ check[k].pc = "history"
  /\ direct' = direct + 1
  /\ CheckUpdate(k, [check[k] EXCEPT !.histAsked = TRUE, !.entries = h],
                 Classified(check[k].updatedMovies[check[k].i], h))
  /\ UNCHANGED <<isAuthenticated, home, convVars>>
  /\ UNCHANGED <<now, accessToken, lastRequestTime, requestCount, frame,
                 calls, lastEnd, sent, cooldowns, startedAt, task,
                 trakt_token, isCheckingHistory, isCancelled, isProcessing,
                 isSyncCancelled, newMoviesSelection,
                 existingMoviesSelection, sync, passes>>

\* the history route: the history request fails
RouteHistoryFails(k) ==
  /\ PageQuiet /\ Exclusive(0)
  /\ check[k].pc = "history"
  /\ direct' = direct + 1
  /\ CheckUpdate(k, [check[k] EXCEPT !.histAsked = TRUE, !.histFailed = TRUE],
                 CheckFailed(check[k].updatedMovies[check[k].i], RouteFailed))
  /\ UNCHANGED <<isAuthenticated, home, convVars>>
  /\ UNCHANGED <<now, accessToken, lastRequestTime, requestCount, frame,
                 calls, lastEnd, sent, cooldowns, startedAt, task,
                 trakt_token, isCheckingHistory, isCancelled, isProcessing,
                 isSyncCancelled, newMoviesSelection,
                 existingMoviesSelection, sync, passes>>

\* handleSync, from the button 'Sync N Movies to Trakt', up to its loop
HandleSync ==
  /\ PageQuiet /\ Exclusive(0)
  /\ isAuthenticated
  /\ newMovies(movies) # << >>
  /\ ~isCheckingHistory
  /\ ~isProcessing
  /\ IF home = Part003
       THEN \E j \in newMoviesSelection : j <= Len(newMovies(movies))
       ELSE uncheckedMovies(movies) = << >> /\ newMoviesSelection # {}
  /\ sync.pc = "idle"
  /\ task[1].fn = "none" /\ frame[1].pc = "idle"
  /\ IF NoToken(trakt_token)
       THEN UNCHANGED <<accessToken, isProcessing, isSyncCancelled, sync>>
       ELSE /\ isProcessing' = TRUE
            /\ isSyncCancelled' = FALSE
            /\ accessToken' = TokenOf(trakt_token)
            /\ sync' = [IdleSync EXCEPT
                          !.pc = "loop", !.i = 1,
                          !.selectedMovies =
                             Selected(newMovies(movies), newMoviesSelection) \o
                             Selected(existingMovies(movies),
                                      existingMoviesSelection),
                          !.cancelled = isSyncCancelled]
  /\ passes' = [passes EXCEPT !.sync = @ + 1]
  /\ UNCHANGED <<isAuthenticated, home, convVars>>
  /\ UNCHANGED <<now, lastRequestTime, requestCount, frame, calls, lastEnd,
                 sent, cooldowns, startedAt, task, trakt_token, movies,
                 isCheckingHistory, isCancelled, newMoviesSelection,
                 existingMoviesSelection, check, direct>>

\* the button 'Cancel Sync'
HandleCancelSync ==
  /\ PageQuiet /\ Exclusive(0)
  /\ isAuthenticated
  /\ newMovies(movies) # << >>
  /\ ~isCheckingHistory
  /\ isProcessing
  /\ ~isSyncCancelled
  /\ isSyncCancelled' = TRUE
  /\ sync' = [sync EXCEPT !.cancelAt = sync.i]
  /\ passes' = [passes EXCEPT !.cancels = @ + 1]
  /\ UNCHANGED <<isAuthenticated, home, convVars>>
  /\ UNCHANGED <<now, accessToken, lastRequestTime, requestCount, frame,
                 calls, lastEnd, sent, cooldowns, startedAt, task,
                 trakt_token, movies, isCheckingHistory, isCancelled,
                 isProcessing, newMoviesSelection, existingMoviesSelection,
                 check, direct>>

\* handleSync: if (movie.synced) continue
AlreadySynced_mut(m) == FALSE
AlreadySynced_mutError(m) == m.synced /\ m.syncError # << >>
AlreadySynced(m) == m.synced

\* handleSync: the top of one iteration, up to await syncMovieToTrakt
SyncIterate ==
  /\ sync.pc = "loop"
  /\ LET sel == sync.selectedMovies
         i == sync.i
     IN
     IF i > Len(sel) \/ sync.cancelled
       THEN \* the loop is left: finally
            /\ sync' = IdleSync
            /\ isProcessing' = FALSE
            /\ isSyncCancelled' = FALSE
            /\ UNCHANGED <<task, frame, calls, startedAt>>
     ELSE IF AlreadySynced(sel[i])
       THEN \* skip
            /\ sync' = [sync EXCEPT !.i = i + 1]
            /\ UNCHANGED <<task, frame, calls, startedAt, isProcessing,
                           isSyncCancelled>>
     ELSE   \* await syncMovieToTrakt({...})
            /\ sync' = [sync EXCEPT !.pc = "await", !.called = @ \cup {i}]
            /\ Await(1, NewTask("syncMovieToTrakt", EntryOfMovie(sel[i])),
                     "search", SearchRequest(sel[i].name, sel[i].year))
            /\ UNCHANGED <<isProcessing, isSyncCancelled>>
  /\ UNCHANGED <<isAuthenticated, home, convVars>>
  /\ UNCHANGED <<now, accessToken, lastRequestTime, requestCount, lastEnd,
                 sent, cooldowns, trakt_token, movies, isCheckingHistory,
                 isCancelled, newMoviesSelection, existingMoviesSelection,
                 check, passes, direct>>

\* the history-add and ratings-add requests among those a task made
Writes(log) ==
  SelectSeq(log, LAMBDA r : r.endpoint \in {<<"/sync/history">>,
                                            <<"/sync/ratings">>})

\* handleSync: the loop after the try or the catch block of one iteration
NextIteration_mut(s, t) ==
  [s EXCEPT !.pc = "loop",
            !.i = IF t.settled = "resolved" THEN @ + 1
                  ELSE Len(s.selectedMovies) + 1,
            !.successCount = IF t.settled = "resolved" THEN @ + 1 ELSE @,
            !.wrote = IF Writes(t.log) # << >> THEN @ \cup {s.i} ELSE @]
NextIteration_mutStay(s, t) ==
  [s EXCEPT !.pc = "loop",
            !.successCount = IF t.settled = "resolved" THEN @ + 1 ELSE @,
            !.wrote = IF Writes(t.log) # << >> THEN @ \cup {s.i} ELSE @]
NextIteration_mutAgain(s, t) ==
  [s EXCEPT !.pc = "await",
            !.wrote = IF Writes(t.log) # << >> THEN @ \cup {s.i} ELSE @]
NextIteration(s, t) ==
  [s EXCEPT !.pc = "loop", !.i = @ + 1,
            !.successCount = IF t.settled = "resolved" THEN @ + 1 ELSE @,
            !.wrote = IF Writes(t.log) # << >> THEN @ \cup {s.i} ELSE @]

\* handleSync: syncMovieToTrakt settled; setMovies((prev) => ...)
SyncResult ==
  /\ sync.pc = "await"
  /\ task[1].settled # "pending"
  /\ Exclusive(1)
  /\ LET movie == sync.selectedMovies[sync.i]
         index == FindIndex(movies, movie.id)
         t == task[1]
     IN
     /\ movies' =
          IF index = 0 THEN movies
          ELSE IF t.settled = "resolved"
            THEN [movies EXCEPT ![index] =
                    [@ EXCEPT !.synced = TRUE,
                              !.syncError = IF t.flag THEN AlreadyInTrakt
                                            ELSE << >>,
                              !.traktWatchedDate = movie.watchedDate]]
            ELSE [movies EXCEPT ![index].syncError = t.message]
     /\ sync' = NextIteration(sync, t)
  /\ task' = [task EXCEPT ![1] = IdleTask]
  /\ UNCHANGED <<isAuthenticated, home, convVars>>
  /\ UNCHANGED <<now, accessToken, lastRequestTime, requestCount, frame,
                 calls, lastEnd, sent, cooldowns, startedAt, trakt_token,
                 isCheckingHistory, isCancelled, isProcessing,
                 isSyncCancelled, newMoviesSelection,
                 existingMoviesSelection, check, passes, direct>>

\* ------------------------------------------------------- the page at work
\* the rows of the diary: one rated and dated, the others bare
CsvEntry(j) ==
  IF j = 1
    THEN [Name |-> "Movie", Year |-> "2023", Rating |-> <<"4", ".", "5">>,
          Date |-> DateOnly("2023-01-01"), WatchedDate |-> NoDate]
    ELSE [Name |-> "Other", Year |-> DigitChar[j + 1], Rating |-> << >>,
          Date |-> NoDate, WatchedDate |-> NoDate]

\* a diary whose later rows carry a date that new Date() cannot parse
BadDateEntry(j) ==
  IF j = 1 THEN CsvEntry(j) ELSE [CsvEntry(j) EXCEPT !.Date = InvalidDate]

\* a diary in which every row is the same film, watched on different days
\* (row 1 as above; the later rows on 2023-06-01, unrated)
SameFilmEntry(j) ==
  IF j = 1 THEN CsvEntry(j)
  ELSE [CsvEntry(1) EXCEPT !.Rating = << >>,
                           !.Date = DateOnly("2023-06-01")]

\* what existingMoviesSelectionAtom holds when the page is opened: nothing,
\* or every row (atomWithStorage reads the item 'lb_existing_selection')
StoredSelections == {{}, 1..MaxMovies}

\* the state after the page was opened with a stored token and processCSV
\* read a diary of MaxMovies entries, in a session whose earlier requests
\* all failed
PageLoaded(file, diary) ==
  /\ now = StartTime
  /\ accessToken = Null
  /\ lastRequestTime = 0
  /\ requestCount = EarlierRequests
  /\ frame = [c \in AllCallers |-> IdleFrame]
  /\ calls = [c \in AllCallers |-> 0]
  /\ lastEnd = -1
  /\ sent = 0
  /\ cooldowns = 0
  /\ startedAt = -1
  /\ task = [c \in AllCallers |-> IdleTask]
  /\ trakt_token = "test-token"
  /\ movies = [j \in 1..MaxMovies |-> MovieOfEntry(diary[j])]
  /\ isCheckingHistory = FALSE
  /\ isCancelled = FALSE
  /\ isProcessing = FALSE
  /\ isSyncCancelled = FALSE
  /\ newMoviesSelection = 1..MaxMovies
  /\ existingMoviesSelection \in StoredSelections
  /\ check = [k \in CheckLoops |-> IdleCheck]
  /\ sync = IdleSync
  /\ passes = [check |-> 0, sync |-> 0, cancels |-> 0]
  /\ direct = 0
  /\ isAuthenticated = TRUE
  /\ home = file
  /\ ratingArg = << >>
  /\ converted = Pending

PassNext ==
  \/ Login
  \/ HandleLogout
  \/ RemoveToken
  \/ \E j \in 1..MaxMovies : ToggleNew(j)
  \/ \E k \in CheckLoops : passes.check < MaxCheckPasses /\ CheckHistory(k)
  \/ StopChecking
  \/ \E k \in CheckLoops : CheckIterate(k)
  \/ \E k \in CheckLoops, r \in SearchAnswers : RouteSearch(k, r)
  \/ \E k \in CheckLoops, h \in HistoryAnswers : RouteHistory(k, h)
  \/ \E k \in CheckLoops : RouteHistoryFails(k)
  \/ passes.sync < MaxSyncPasses /\ HandleSync
  \/ HandleCancelSync
  \/ SyncIterate
  \/ SyncResult
  \/ SearchSettled(1)
  \/ HistorySettled(1)
  \/ HistoryAddSettled(1)
  \/ RatingsSettled(1)
  \/ WakeSpacing(1)
  \/ Batch(1, 0)
  \/ WakeCooldown(1)
  \/ Send(1, 0)
  \/ \E b \in ResponseBodies(frame[1].req) : RecvOk(1, b)
  \/ \E e \in OtherErrors : RecvErr(1, e)
  \/ Tick

PassInit == PageLoaded(Part003, [j \in 1..MaxMovies |-> CsvEntry(j)])
PassSpec == PassInit /\ [][PassNext]_vars

\* The page with a token that stays and a remote service that answers every
\* request: check passes and sync passes one after another.
ResyncNext ==
  \/ \E j \in 1..MaxMovies : ToggleNew(j)
  \/ \E k \in CheckLoops : passes.check < MaxCheckPasses /\ CheckHistory(k)
  \/ \E k \in CheckLoops : CheckIterate(k)
  \/ \E k \in CheckLoops, r \in SearchAnswers \ {"error"} : RouteSearch(k, r)
  \/ \E k \in CheckLoops, h \in HistoryAnswers : RouteHistory(k, h)
  \/ passes.sync < MaxResyncPasses /\ HandleSync
  \/ SyncIterate
  \/ SyncResult
  \/ SearchSettled(1)
  \/ HistorySettled(1)
  \/ HistoryAddSettled(1)
  \/ RatingsSettled(1)
  \/ WakeSpacing(1)
  \/ Batch(1, 0)
  \/ WakeCooldown(1)
  \/ Send(1, 0)
  \/ \E b \in ResponseBodies(frame[1].req) : RecvOk(1, b)
  \/ Tick

ResyncSpec == PassInit /\ [][ResyncNext]_vars

\* The page with a remote service that answers the gateway's requests, and
\* a user who stops a check pass and starts another one.
RecheckNext ==
  \/ \E k \in CheckLoops : passes.check < MaxRecheckPasses /\ CheckHistory(k)
  \/ StopChecking
  \/ \E k \in CheckLoops : CheckIterate(k)
  \/ \E k \in CheckLoops, r \in SearchAnswers : RouteSearch(k, r)
  \/ \E k \in CheckLoops : RouteHistory(k, << >>)
  \/ passes.sync < MaxSyncPasses /\ HandleSync
  \/ SyncIterate
  \/ SyncResult
  \/ SearchSettled(1)
  \/ HistorySettled(1)
  \/ HistoryAddSettled(1)
  \/ RatingsSettled(1)
  \/ WakeSpacing(1)
  \/ Batch(1, 0)
  \/ WakeCooldown(1)
  \/ Send(1, 0)
  \/ \E b \in ResponseBodies(frame[1].req) : RecvOk(1, b)
  \/ Tick

RecheckSpec == PassInit /\ [][RecheckNext]_vars

\* The check passes alone, against a history that may hold two entries of
\* the matched movie, the latest first.
RewatchNext ==
  \/ \E k \in CheckLoops : passes.check < MaxRecheckPasses /\ CheckHistory(k)
  \/ StopChecking
  \/ \E k \in CheckLoops : CheckIterate(k)
  \/ \E k \in CheckLoops, r \in SearchAnswers : RouteSearch(k, r)
  \/ \E k \in CheckLoops, h \in HistoryAnswers \cup {<<T2, T1>>} :
        RouteHistory(k, h)
  \/ \E k \in CheckLoops : RouteHistoryFails(k)

RewatchSpec == PassInit /\ [][RewatchNext]_vars

\* The same with a user who clicks 'Cancel Sync' and a remote service that
\* may answer with an error; the loops of the page run on, timers fire and
\* every request is answered.
CancelNext ==
  \/ ResyncNext
  \/ HandleCancelSync
  \/ \E e \in OtherErrors : RecvErr(1, e)

PageStep ==
  \/ \E k \in CheckLoops : CheckIterate(k)
  \/ SyncIterate
  \/ SyncResult
  \/ SearchSettled(1)
  \/ HistorySettled(1)
  \/ HistoryAddSettled(1)
  \/ RatingsSettled(1)
  \/ WakeSpacing(1)
  \/ Batch(1, 0)
  \/ WakeCooldown(1)
  \/ Send(1, 0)
  \/ \E b \in ResponseBodies(frame[1].req) : RecvOk(1, b)
  \/ Tick

LiveSyncSpec == PassInit /\ [][CancelNext]_vars /\ WF_vars(PageStep)

\* the same with the diary of unparseable dates
BadDateInit ==
  PageLoaded(Part003, [j \in 1..MaxMovies |-> BadDateEntry(j)])
BadDateSpec == BadDateInit /\ [][ResyncNext]_vars

\* the same with the diary of one film watched several times
SameFilmInit ==
  PageLoaded(Part003, [j \in 1..MaxMovies |-> SameFilmEntry(j)])
SameFilmSpec == SameFilmInit /\ [][ResyncNext]_vars

\* the same with the Home component of src/app/page.tsx
AppPassInit == PageLoaded(AppPage, [j \in 1..MaxMovies |-> CsvEntry(j)])
AppPassSpec == AppPassInit /\ [][PassNext]_vars

\* ============================================================ properties
BackoffSchedule == <<4000, 8000, 16000>>

\* C1: for one sequential caller, whatever the outcome of each call, every
\* transport request begins at least 3000 ms after the completion of the
\* previous transport request.
C1_MinSpacing ==
  \A c \in AllCallers :
    (frame[c].begin # -1 /\ frame[c].prevEnd # -1)
       => frame[c].begin - frame[c].prevEnd >= MIN_REQUEST_INTERVAL

\* C2: from fresh pacing state the batch cooldown is imposed after 10
\* requests and before the 11th: a request with number k among all requests
\* starts after exactly (k - 1) div 10 cooldowns, and the counter is 0 after
\* a cooldown.
C2_CooldownAfterTen ==
  \A c \in AllCallers :
    frame[c].pc = "inflight"
       => cooldowns = (frame[c].ordinal - 1) \div BATCH_SIZE

\* C3: a 429 answer is followed by a retry of the same endpoint, payload and
\* method after a sleep of 4 s, 8 s, 16 s before retries 1, 2, 3; a call
\* answered 429 three times and then successfully returns that body.
C3_BackoffRetry ==
  \A c \in AllCallers :
    LET f == frame[c] IN
    /\ Len(f.backoffs) <= 3
    /\ \A i \in 1..Len(f.backoffs) : f.backoffs[i] = BackoffSchedule[i]
    /\ f.sentReqs \subseteq {f.req}
    /\ f.pc = "backoff" => f.last.kind = "http429"
    /\ f.pc \in {"spacing", "batch", "cooldown", "send"}
          => Len(f.backoffs) = f.attempts
    /\ (f.pc = "inflight" /\ f.attempts >= 2)
          => /\ Len(f.backoffs) = f.attempts - 1
             /\ f.begin - f.prevEnd >= BackoffSchedule[f.attempts - 1]
    /\ (f.pc = "thrown" /\ f.last.kind = "http429") => f.attempts = 4
    /\ f.pc = "returned"
          => f.result.tag = "ok" /\ f.result = f.last
                /\ f.result.id = f.ordinal

C3_Witness ==
  /\ frame[1].pc = "returned"
  /\ frame[1].attempts = 4
  /\ frame[1].backoffs = BackoffSchedule
  /\ frame[1].result.tag = "ok"

\* C4: one call makes at most 4 transport attempts and always terminates;
\* four 429 answers end it by throwing the last 429 error unmodified.
C4_Settled ==
  \A c \in AllCallers :
    LET f == frame[c] IN
    /\ f.attempts <= 4
    /\ (f.attempts = 4 /\ f.last.kind = "http429" /\ f.last.id = f.ordinal)
          => f.pc = "thrown" /\ f.result = f.last

C4_BoundedAttempts ==
  /\ []C4_Settled
  /\ (frame[1].pc # "idle") ~> (frame[1].pc \in {"returned", "thrown"})

C4_Witness ==
  /\ frame[1].pc = "thrown"
  /\ frame[1].attempts = 4
  /\ frame[1].result.kind = "http429"
  /\ frame[1].result.id = frame[1].ordinal

\* C5: an attempt that fails with anything other than 429 ends the call:
\* that error is thrown, with no backoff sleep and no further attempt.
C5_NoRetryOnOtherErrors ==
  \A c \in AllCallers :
    LET f == frame[c] IN
    (f.last.tag = "err" /\ f.last.kind \in OtherErrors)
       => /\ f.pc = "thrown"
          /\ f.result = f.last
          /\ f.last.id = f.ordinal
          /\ Len(f.backoffs) = f.attempts - 1

C5_Witness ==
  /\ frame[1].pc = "thrown"
  /\ frame[1].result.kind = "network"
  /\ frame[1].attempts = 1
  /\ frame[1].backoffs = << >>

\* C6: with no access token set, callTraktApi throws 'Trakt client not
\* initialized', makes no transport request and leaves lastRequestTime and
\* requestCount unchanged.
C6_NoToken ==
  accessToken = Null =>
    \A c \in AllCallers :
      /\ frame[c].pc \in {"idle", "thrown"}
      /\ frame[c].pc = "thrown"
            => frame[c].result = NotInitialized /\ frame[c].attempts = 0

C6_PacingUntouched ==
  (accessToken = Null /\ frame[1].pc = "idle" /\ frame'[1].pc # "idle")
     => /\ frame'[1].pc = "thrown"
        /\ frame'[1].result.kind = "Trakt client not initialized"
        /\ sent' = sent
        /\ lastRequestTime' = lastRequestTime
        /\ requestCount' = requestCount

C6_NotInitialized == []C6_NoToken /\ [][C6_PacingUntouched]_vars

C6_Witness ==
  /\ frame[1].pc = "thrown"
  /\ frame[1].result = NotInitialized
  /\ lastRequestTime > 0
  /\ requestCount > 0

\* C7: called while no access token is set, each of searchMovie,
\* checkMovieHistory and syncMovieToTrakt rejects with an error whose message
\* contains 'Trakt client not initialized'.
C7_RejectsNotInitialized ==
  \A c \in AllCallers :
    (task[c].noToken /\ task[c].settled # "pending")
       => /\ task[c].settled = "rejected"
          /\ Contains(task[c].message, "Trakt client not initialized")

\* C8: every request that reaches the remote service during a check pass
\* or a sync pass is issued through callTraktApi.
C8_SingleChokePoint == direct = 0

\* C9: with a transport that always succeeds in zero time, N back-to-back
\* calls from fresh pacing state take at least
\* (N-1)*3000 + 10000*floor(N/10) ms.
C9_TotalTime ==
  frame[1].pc = "returned"
     => now - startedAt >= (calls[1] - 1) * 3000 + 10000 * (calls[1] \div 10)

C9_Witness ==
  /\ frame[1].pc = "returned"
  /\ calls[1] = 20
  /\ now - startedAt = 19 * 3000 + 2 * 10000

\* C10: the gateway spaces a request only from the lastRequestTime its own
\* caller read; two unserialized callers can read the same value before
\* either request completes and begin less than 3000 ms apart.
C10_SpacedFromOwnRead ==
  \A c \in AllCallers :
    frame[c].pc = "inflight"
       => frame[c].begin >= frame[c].readLast + MIN_REQUEST_INTERVAL

C10_Witness ==
  /\ frame[1].pc = "inflight"
  /\ frame[2].pc = "inflight"
  /\ frame[1].readLast = frame[2].readLast
  /\ frame[1].readLast > 0
  /\ lastRequestTime = frame[1].readLast
  /\ frame[1].begin - frame[2].begin < MIN_REQUEST_INTERVAL
  /\ frame[2].begin - frame[1].begin < MIN_REQUEST_INTERVAL

\* C11: convertLetterboxdRatingToTrakt returns 0 for the empty text and, for
\* a decimal numeral r, the integer n with n <= 2r + 0.5 < n + 1 (round half
\* up, no upper clamp): 2r for r = 0, 0.5, ..., 5; 6 for '2.75'; 12 for '6'.
C11_RoundHalfUp ==
  LET D == <<"0", "1", "2", "3", "4", "5", "6", "7", "8", "9">>
      n == converted
  IN converted # Pending =>
       /\ ratingArg = << >> => n = 0
       /\ \A w \in 0..9, f1 \in 0..9, f2 \in 0..9 :
            LET h == 100 * w + 10 * f1 + f2 IN
            \/ /\ f1 = 0 /\ f2 = 0
               /\ ratingArg = <<D[w + 1]>>
            \/ /\ f2 = 0
               /\ ratingArg = <<D[w + 1], ".", D[f1 + 1]>>
            \/ ratingArg = <<D[w + 1], ".", D[f1 + 1], D[f2 + 1]>>
            => /\ 100 * n <= 2 * h + 50
               /\ 2 * h + 50 < 100 * n + 100
       /\ \A k \in 0..10 :
            ratingArg = (IF k % 2 = 0 THEN <<D[(k \div 2) + 1]>>
                         ELSE <<D[(k \div 2) + 1], ".", "5">>)
            => n = k
       /\ ratingArg = <<"2", ".", "7", "5">> => n = 6
       /\ ratingArg = <<"6">> => n = 12

C11_Witness ==
  /\ ratingArg = <<"2", ".", "7", "5">>
  /\ converted = 6

\* C12: syncMovieToTrakt hands a ratings-add request to callTraktApi only
\* when the converted rating is greater than 0, never for an empty, '0' or
\* non-numeric rating; and when it resolves with alreadyExists false it has
\* handed one over exactly when the converted rating is greater than 0.
C12_RatingsIffPositive ==
  \A c \in AllCallers :
    LET t == task[c]
        r == convertLetterboxdRatingToTrakt(t.entry.Rating)
        asked == \E i \in 1..Len(t.log) :
                    t.log[i].endpoint = <<"/sync/ratings">>
    IN t.fn = "syncMovieToTrakt" =>
         /\ asked => (r # NaN /\ r > 0)
         /\ t.entry.Rating \in {<< >>, <<"0">>, <<"i", "n", "v">>}
              => ~asked
         /\ (t.settled = "resolved" /\ ~t.flag)
              => (asked <=> (r # NaN /\ r > 0))

C12_Witness ==
  /\ task[1].fn = "syncMovieToTrakt"
  /\ task[1].settled = "resolved"
  /\ task[1].entry.Rating = <<"4", ".", "5">>
  /\ \E i \in 1..Len(task[1].log) :
        /\ task[1].log[i].endpoint = <<"/sync/ratings">>
        /\ task[1].log[i].data[1].rating = 9

\* C13: when the route's search for a record finds nothing, the check pass
\* gives the record 'Ready to sync', no remote watched date and synced
\* false, publishes that with setMovies, and asks for no history.
C13_Classified ==
  \A k \in CheckLoops :
    check[k].search = "none" =>
      LET m == check[k].updatedMovies[check[k].at] IN
      /\ m.syncError = ReadyToSync
      /\ m.traktWatchedDate = NoDate
      /\ ~m.synced
      /\ ~check[k].histAsked
      /\ check[k].pc = "loop" \/ check[k].i > check[k].at
C13_Published ==
  \A k \in CheckLoops :
    (check[k].search # "none" /\ check'[k].search = "none")
      => /\ movies' = check'[k].updatedMovies
         /\ direct' = direct + 1
C13_NotFoundIsReady == []C13_Classified /\ [][C13_Published]_vars

C13_Witness ==
  \E k \in CheckLoops :
    /\ check[k].search = "none"
    /\ check[k].at = 1
    /\ movies[1].syncError = ReadyToSync
    /\ direct = 1

\* C14: when the matched movie has a history entry and the record has a
\* local watched date, equal calendar days give 'Already in Trakt', different
\* days give 'Ready to sync', and in both cases traktWatchedDate is the
\* entry's watched date.
C14_DayComparison ==
  \A k \in CheckLoops :
    LET ck == check[k] IN
    (ck.histAsked /\ ~ck.histFailed /\ ck.entries # << >>) =>
      LET m == ck.updatedMovies[ck.at] IN
      m.watchedDate # NoDate =>
        /\ m.watchedDate.day = ck.entries[1].day
             => m.syncError = AlreadyInTrakt
        /\ m.watchedDate.day # ck.entries[1].day
             => m.syncError = ReadyToSync
        /\ m.traktWatchedDate = ck.entries[1]

C14_Witness ==
  \E k \in CheckLoops :
    /\ check[k].histAsked
    /\ check[k].entries = <<T2>>
    /\ check[k].updatedMovies[check[k].at].watchedDate = DateOnly("2023-01-01")
    /\ check[k].updatedMovies[check[k].at].syncError = ReadyToSync
    /\ check[k].updatedMovies[check[k].at].traktWatchedDate = T2

\* C15: when the request made while classifying a record fails, the check
\* pass leaves the record 'Unchecked' with synced false, so that the next
\* check pass takes it up again.
C15_FailureStaysUnchecked ==
  \A k \in CheckLoops :
    (check[k].search = "error" \/ check[k].histFailed) =>
      LET m == check[k].updatedMovies[check[k].at] IN
      /\ m.syncError = Unchecked
      /\ ~m.synced
      /\ NeedsCheck(m)

\* C16: once a check pass has reached a record with no token stored, it
\* hands no later record to checkMovieInTraktHistory.
C16_HaltsUnauthenticated ==
  \A k \in CheckLoops :
    check[k].unauthAt # 0 =>
      \A j \in check[k].attempted : j <= check[k].unauthAt

\* C17: a sync pass started with no token stored makes no gateway call and
\* changes no record.
C17_NothingHappens ==
  (passes'.sync = passes.sync + 1 /\ trakt_token = "") =>
     /\ movies' = movies
     /\ sync' = sync
     /\ task' = task
     /\ frame' = frame
     /\ calls' = calls
     /\ sent' = sent
     /\ accessToken' = accessToken
     /\ isProcessing' = isProcessing
C17_NoTokenNoSync == [][C17_NothingHappens]_vars

C17_Witness ==
  /\ passes.sync = 1
  /\ trakt_token = ""
  /\ sync.pc = "idle"
  /\ calls[1] = 0
  /\ newMovies(movies) # << >>

\* C18: syncMovieToTrakt is never called for a record of the selected list
\* that was Synced when the pass started, so no search, history, history-add
\* or ratings-add request is made for it.
C18_SyncedSkipped ==
  /\ \A i \in sync.called : ~sync.selectedMovies[i].synced
  /\ sync.wrote \subseteq sync.called
  /\ task[1].fn = "syncMovieToTrakt" =>
       (sync.pc = "await" /\ sync.i \in sync.called)

C18_Witness ==
  \E i \in 1..Len(sync.selectedMovies) :
    /\ sync.selectedMovies[i].synced
    /\ sync.i > i
    /\ i \notin sync.called
    /\ sync.called # {}

\* C19: in a sync pass that follows another one, no history-add and no
\* ratings-add request is made for a record that is Synced when the pass
\* starts; when every record of its list is Synced it makes none at all.
C19_NoWritesAgain ==
  passes.sync >= 2 =>
    /\ \A i \in 1..Len(sync.selectedMovies) :
         sync.selectedMovies[i].synced =>
           /\ i \notin sync.wrote
           /\ (sync.pc = "await" /\ sync.i = i) => Writes(task[1].log) = << >>
    /\ (\A i \in 1..Len(sync.selectedMovies) : sync.selectedMovies[i].synced)
         => (sync.wrote = {} /\ Writes(task[1].log) = << >>)

C19_Witness ==
  /\ passes.sync = 2
  /\ \E i \in 1..Len(sync.selectedMovies) :
       /\ sync.selectedMovies[i].synced
       /\ sync.selectedMovies[i].syncError = << >>
       /\ sync.i > i
       /\ i \notin sync.wrote

\* C20: after 'Cancel Sync' is clicked while row k of the list is in flight,
\* syncMovieToTrakt is called for no later row.
C20_StopsAfterInFlight ==
  sync.cancelAt # 0 => \A j \in sync.called : j <= sync.cancelAt

\* C21: after 'Stop Checking' is clicked while record k of a check pass is
\* in flight, no later record is handed to checkMovieInTraktHistory in that
\* pass.
C21_StopsChecking ==
  \A k \in CheckLoops :
    check[k].stopAt # 0 =>
      \A j \in check[k].attempted : j <= check[k].stopAt

\* C22: a pass is left only at the top of an iteration, past the last record
\* or on a cancel; every record the loop has passed was attempted unless it
\* was not eligible, whatever the outcome of the records before it.
C22_Attempted ==
  /\ \A k \in CheckLoops :
       check[k].pc # "idle" =>
         \A j \in 1..Len(check[k].updatedMovies) :
           j < check[k].i =>
             \/ j \in check[k].attempted
             \/ ~NeedsCheck(check[k].updatedMovies[j])
  /\ sync.pc # "idle" =>
       \A j \in 1..Len(sync.selectedMovies) :
         j < sync.i =>
           j \in sync.called \/ sync.selectedMovies[j].synced
C22_Left ==
  /\ \A k \in CheckLoops :
       (check[k].pc # "idle" /\ check'[k].pc = "idle") =>
          /\ check[k].pc = "loop"
          /\ check[k].i > Len(check[k].updatedMovies) \/ isCancelled
  /\ (sync.pc # "idle" /\ sync'.pc = "idle") =>
          /\ sync.pc = "loop"
          /\ sync.i > Len(sync.selectedMovies) \/ sync.cancelled
C22_FailureDoesNotEndPass == []C22_Attempted /\ [][C22_Left]_vars

C22_Witness ==
  /\ sync.called = {1, 2}
  /\ \E j \in 1..Len(movies) :
       /\ movies[j].id = sync.selectedMovies[1].id
       /\ StartsWithFailed(movies[j].syncError)
       /\ ~movies[j].synced

\* C23: a record that is Synced is Synced after every step.
C23_Kept ==
  \A j \in 1..Len(movies) :
    movies[j].synced => (j <= Len(movies') /\ movies'[j].synced)
C23_StaysSynced == [][C23_Kept]_vars

\* C24: a record whose watched date cannot be parsed carries a status that
\* starts with 'Failed' once a check pass or a sync pass has processed it.
C24_BadDateFails ==
  /\ \A k \in CheckLoops :
       \A j \in check[k].attempted :
         LET m == check[k].updatedMovies[j] IN
         (j < check[k].i /\ m.watchedDate # NoDate
                         /\ ~IsValidDate(m.watchedDate))
           => StartsWithFailed(m.syncError)
  /\ \A j \in sync.called :
       LET m == sync.selectedMovies[j] IN
       (j < sync.i /\ m.watchedDate # NoDate /\ ~IsValidDate(m.watchedDate))
         => \E n \in 1..Len(movies) :
              /\ movies[n].id = m.id
              /\ StartsWithFailed(movies[n].syncError)

\* C25: for the record 'Movie' (2023) rated 4.5 and watched on 2023-01-01,
\* the gateway calls of syncMovieToTrakt are, in this order, the search, the
\* history query, a history-add with watched_at 2023-01-01T00:00:00.000Z and
\* a ratings-add with rating 9 and the same rated_at: all four when it
\* resolves with alreadyExists false, and the sync pass then marks the
\* record Synced.
C25_Calls ==
  LET t == task[1]
      midnight == [day |-> "2023-01-01", time |-> "T00:00:00.000Z"]
      expected ==
        << [endpoint |-> <<"/search/movie", "Movie", "2023">>,
            data |-> << >>, method |-> "GET"],
           [endpoint |-> <<"/sync/history/movies", 123>>,
            data |-> << >>, method |-> "GET"],
           [endpoint |-> <<"/sync/history">>,
            data |-> <<[ids |-> 123, watched_at |-> midnight,
                        rated_at |-> NoDate, rating |-> 0]>>,
            method |-> "POST"],
           [endpoint |-> <<"/sync/ratings">>,
            data |-> <<[ids |-> 123, watched_at |-> NoDate,
                        rated_at |-> midnight, rating |-> 9]>>,
            method |-> "POST"] >>
  IN (t.fn = "syncMovieToTrakt" /\ t.entry.Name = "Movie") =>
       /\ t.entry.Rating = <<"4", ".", "5">>
       /\ t.entry.Date = DateOnly("2023-01-01")
       /\ Len(t.log) <= 4
       /\ t.log = SubSeq(expected, 1, Len(t.log))
       /\ (t.settled = "resolved" /\ ~t.flag) => t.log = expected
C25_Marked ==
  (/\ sync.pc = "await" /\ sync'.pc = "loop"
   /\ task[1].entry.Name = "Movie"
   /\ task[1].settled = "resolved" /\ ~task[1].flag)
  => \E n \in 1..Len(movies') :
       /\ movies'[n].name = "Movie"
       /\ movies'[n].synced
       /\ movies'[n].syncError = << >>
C25_EndToEnd == []C25_Calls /\ [][C25_Marked]_vars

C25_Witness ==
  /\ calls[1] = 4
  /\ sync.pc = "loop"
  /\ sync.selectedMovies[1].name = "Movie"
  /\ sync.wrote = {1}
  /\ sync.i = 2
  /\ movies[1].synced
  /\ movies[1].syncError = << >>

\* C26: the sync pass calls syncMovieToTrakt for the rows of its list in
\* increasing order, one at a time: a row's first gateway call is made when
\* no gateway call and no syncMovieToTrakt of an earlier row is under way,
\* and the loop moves past a row in the step that updates the row's record.
C26_OneAtATime ==
  /\ \A j \in sync.called :
       IF sync.pc = "await" THEN j <= sync.i ELSE j < sync.i
  /\ task[1].fn # "none" =>
       /\ sync.pc = "await"
       /\ task[1].entry = EntryOfMovie(sync.selectedMovies[sync.i])
  /\ frame[1].pc # "idle" => task[1].fn # "none"
  /\ sync.pc = "await" => (sync.i \in sync.called /\ task[1].fn # "none")
C26_InOrder ==
  /\ sync'.called \ sync.called # {} =>
       /\ sync.pc = "loop" /\ sync'.pc = "await"
       /\ sync'.called = sync.called \cup {sync.i}
       /\ task[1].fn = "none" /\ frame[1].pc = "idle"
       /\ Len(task'[1].log) = 1
  /\ (sync.pc = "await" /\ sync'.pc # "await") =>
       /\ task[1].settled # "pending"
       /\ sync'.i = sync.i + 1
       /\ LET m == sync.selectedMovies[sync.i] IN
          \A n \in 1..Len(movies) :
            (movies[n].id = m.id /\ n = FindIndex(movies, m.id)) =>
              IF task[1].settled = "resolved"
                THEN movies'[n].synced
                ELSE movies'[n].syncError = task[1].message
C26_ListOrder == []C26_OneAtATime /\ [][C26_InOrder]_vars

C26_Witness ==
  /\ sync.pc = "await"
  /\ sync.i = 2
  /\ sync.called = {1, 2}
  /\ Len(task[1].log) = 1
  /\ frame[1].pc = "inflight"
  /\ \E n \in 1..Len(movies) :
       movies[n].id = sync.selectedMovies[1].id /\ movies[n].synced

\* C27: the record a sync pass calls syncMovieToTrakt for, and the record a
\* history-add or ratings-add request is made for, does not have the status
\* 'Unchecked' at that moment.
C27_NotUnchecked ==
  LET row == IF sync.pc = "idle" THEN NoMovie
             ELSE sync.selectedMovies[sync.i]
      unchecked == \E n \in 1..Len(movies) :
                     movies[n].id = row.id /\ movies[n].syncError = Unchecked
  IN /\ (sync.pc = "loop" /\ sync'.pc = "await") => ~unchecked
     /\ (sync.pc = "await" /\ Writes(task'[1].log) # Writes(task[1].log)
                           /\ task'[1].fn # "none")
          => ~unchecked
C27_CheckedBeforeSync == [][C27_NotUnchecked]_vars

\* C28: when syncMovieToTrakt, called by the sync pass for a record with a
\* watched date, has found the movie and gone past its history query, it has
\* made a history-add request with the movie's identifier and the date as
\* an ISO timestamp, whether or not the history holds an entry.
C28_HistoryAddAlways ==
  LET t == task[1] IN
  (/\ sync.pc = "await"
   /\ t.fn = "syncMovieToTrakt"
   /\ t.entry.Date # NoDate
   /\ t.settled = "resolved")
  => \E i \in 1..Len(t.log) :
       /\ t.log[i].endpoint = <<"/sync/history">>
       /\ t.log[i].data[1].ids = t.movie
       /\ t.log[i].data[1].watched_at =
            [day |-> t.entry.Date.day, time |-> "T00:00:00.000Z"]

\* C29: when the history query of syncMovieToTrakt returns at least one
\* entry, syncMovieToTrakt resolves with alreadyExists true at once, having
\* made two gateway calls, the search and the history query, and no
\* history-add or ratings-add.
C29_TwoCalls ==
  \A c \in AllCallers :
    LET t == task[c] IN
    (t.fn = "syncMovieToTrakt" /\ t.settled = "resolved" /\ t.flag) =>
      /\ Len(t.log) = 2
      /\ t.log[1].endpoint[1] = "/search/movie"
      /\ t.log[2].endpoint = <<"/sync/history/movies", t.movie>>
C29_Returns ==
  \A c \in AllCallers :
    (/\ task[c].fn = "syncMovieToTrakt"
     /\ task[c].stage = "history"
     /\ frame[c].pc = "returned"
     /\ frame[c].result.body # << >>
     /\ task'[c] # task[c])
    => /\ task'[c].settled = "resolved"
       /\ task'[c].flag
       /\ task'[c].log = task[c].log
       /\ calls'[c] = calls[c]
C29_AlreadyExists == []C29_TwoCalls /\ [][C29_Returns]_vars

C29_Witness ==
  /\ task[1].fn = "syncMovieToTrakt"
  /\ task[1].settled = "resolved"
  /\ task[1].flag
  /\ Len(task[1].log) = 2
  /\ task[1].entry.Rating = <<"4", ".", "5">>
  /\ task[1].entry.Date # NoDate

\* C30: for a record with no rating and no watched date the sync pass makes
\* no history-add and no ratings-add request; syncMovieToTrakt fails for it
\* only when its search fails, and when it resolves the record is marked
\* synced with no failure text.
C30_NoWrites ==
  LET t == task[1] IN
  (/\ sync.pc = "await"
   /\ t.fn = "syncMovieToTrakt"
   /\ t.entry.Rating = << >>
   /\ t.entry.Date = NoDate)
  => /\ Writes(t.log) = << >>
     /\ Len(t.log) <= 2
     /\ t.settled = "rejected" =>
          t.message[1] = "Failed to search for movie: "
C30_Marked ==
  LET t == task[1]
      m == sync.selectedMovies[sync.i]
  IN
  (/\ sync.pc = "await" /\ sync'.pc = "loop"
   /\ t.entry.Rating = << >>
   /\ t.entry.Date = NoDate
   /\ t.settled = "resolved")
  => /\ m.letterboxdRating = NoRating /\ m.watchedDate = NoDate
     /\ \E n \in 1..Len(movies') :
          /\ movies'[n].id = m.id
          /\ movies'[n].synced
          /\ ~StartsWithFailed(movies'[n].syncError)
C31_Rejects ==
  (/\ sync.pc = "await"
   /\ task[1].stage = "histadd"
   /\ frame[1].pc = "thrown"
   /\ task'[1] # task[1])
  => /\ task'[1].settled = "rejected"
     /\ task'[1].message[1] = "Failed to sync movie: "
     /\ task'[1].log = task[1].log
     /\ \A i \in 1..Len(task[1].log) :
          task[1].log[i].endpoint # <<"/sync/ratings">>
     /\ calls'[1] = calls[1]
C31_Recorded ==
  (/\ sync.pc = "await" /\ sync'.pc # "await"
   /\ task[1].settled = "rejected")
  => /\ sync'.pc = "loop"
     /\ sync'.i = sync.i + 1
     /\ \E n \in 1..Len(movies') :
          /\ movies'[n].id = sync.selectedMovies[sync.i].id
          /\ movies'[n].syncError = task[1].message
          /\ StartsWithFailed(movies'[n].syncError)
C31_HistoryAddFails == [][C31_Rejects /\ C31_Recorded]_vars

C31_Witness ==
  /\ sync.pc = "await"
  /\ sync.i = 2
  /\ sync.wrote = {1}
  /\ calls[1] = 4
  /\ Len(task[1].log) = 1
  /\ \E n \in 1..Len(movies) :
       /\ movies[n].id = sync.selectedMovies[1].id
       /\ movies[n].syncError # << >>
       /\ movies[n].syncError[1] = "Failed to sync movie: "

\* C32: a record that is Failed when a check pass starts is handed to
\* checkMovieInTraktHistory by that pass and is given 'Unchecked', 'Ready to
\* sync' or 'Already in Trakt'; the pass publishes that status.
C32_Rechecked ==
  \A k \in CheckLoops :
    \A j \in check[k].failed :
      j < check[k].i =>
        /\ j \in check[k].attempted
        /\ check[k].updatedMovies[j].syncError
             \in {Unchecked, ReadyToSync, AlreadyInTrakt}
C32_Published ==
  \A k \in CheckLoops :
    (check[k].i \in check[k].failed /\ check'[k].i = check[k].i + 1)
      => /\ movies' = check'[k].updatedMovies
         /\ ~StartsWithFailed(movies'[check[k].i].syncError)
C32_FailedRechecked == []C32_Rechecked /\ [][C32_Published]_vars

C32_Witness ==
  \E k \in CheckLoops :
    \E j \in check[k].failed :
      /\ j < check[k].i
      /\ check[k].updatedMovies[j].syncError = ReadyToSync
      /\ movies[j].syncError = ReadyToSync

\* C33: at most one checkHistory loop is running.
C33_OneCheckLoop ==
  Cardinality({k \in CheckLoops : check[k].pc # "idle"}) <= 1

\* C34: the step of the sync pass that takes the outcome of row i of its
\* list writes it to the record row i was made from: after it that record
\* is synced, or carries the error message.
C34_SameRecord ==
  LET m == sync.selectedMovies[sync.i] IN
  (sync.pc = "await" /\ sync'.pc = "loop") =>
    \E n \in 1..Len(movies') :
      /\ movies'[n].id = m.id
      /\ movies'[n].watchedDate = m.watchedDate
      /\ movies'[n].letterboxdRating = m.letterboxdRating
      /\ IF task[1].settled = "resolved"
           THEN movies'[n].synced
           ELSE movies'[n].syncError = task[1].message
C34_UpdatesItsRecord == [][C34_SameRecord]_vars

\* C35: while the user does not touch the checkboxes, a record that stays in
\* the list 'New Movies' stays selected if it was selected and unselected
\* if it was not.
C35_SameRecords ==
  LET before == newMovies(movies)
      after == newMovies(movies')
  IN newMoviesSelection' = newMoviesSelection =>
       \A a \in 1..Len(before), b \in 1..Len(after) :
         before[a].id = after[b].id =>
           (a \in newMoviesSelection <=> b \in newMoviesSelection)
C35_SelectionDesignates == [][C35_SameRecords]_vars

\* C36: no record is both in uncheckedMovies and in existingMovies, so that
\* every record is in exactly one of unchecked, existing and the others.
C36_OneCategory ==
  \A j \in 1..Len(movies) :
    ~((movies[j].syncError = Unchecked
         \/ StartsWithFailed(movies[j].syncError))
      /\ (movies[j].synced \/ movies[j].syncError = AlreadyInTrakt))

\* C37: when the history query of syncMovieToTrakt fails, syncMovieToTrakt
\* goes on without a history-add or ratings-add request.
C37_NoWriteAfterFailure ==
  \A c \in AllCallers :
    (/\ task[c].fn = "syncMovieToTrakt"
     /\ task[c].stage = "history"
     /\ frame[c].pc = "thrown"
     /\ task'[c] # task[c])
    => Writes(task'[c].log) = << >>
C37_WritesNeedHistory == [][C37_NoWriteAfterFailure]_vars

\* C38: when the history of the matched movie holds an entry on the calendar
\* day of the record's watched date, whichever entry it is, the check pass
\* gives the record 'Already in Trakt'.
C38_AnyEntry ==
  \A k \in CheckLoops :
    LET ck == check[k] IN
    (ck.histAsked /\ ~ck.histFailed) =>
      LET m == ck.updatedMovies[ck.at] IN
      (/\ m.watchedDate # NoDate
       /\ \E n \in 1..Len(ck.entries) :
            ck.entries[n].day = m.watchedDate.day)
        => m.syncError = AlreadyInTrakt

\* the step that ends a sync pass leaves isProcessing and isSyncCancelled
\* false; the step that starts one sets isProcessing and starts with the
\* cancel flag, and the loop's own copy of it, false
C39_Reset ==
  /\ (sync.pc # "idle" /\ sync'.pc = "idle")
       => (~isProcessing' /\ ~isSyncCancelled')
  /\ (sync.pc = "idle" /\ sync'.pc # "idle")
       => (isProcessing' /\ ~isSyncCancelled' /\ ~sync'.cancelled)
C39_Idle ==
  sync.pc = "idle" => (~isProcessing /\ ~isSyncCancelled)
\* C39: every sync pass that has started eventually ends, and when it has
\* ended isProcessing and the cancel flag are false, so that a cancel of one
\* pass never stops the next.
C39_PassEnds ==
  /\ []C39_Idle
  /\ [][C39_Reset]_vars
  /\ (sync.pc # "idle") ~> (sync.pc = "idle")

C39_Witness ==
  /\ passes.cancels = 1
  /\ passes.sync = 2
  /\ sync.pc = "await"
  /\ sync.called # {}
  /\ ~isSyncCancelled

====
